---- MODULE Spec2Model ----
(***************************************************************************)
(* aio_lambda_api: route table, AWS Lambda trigger adapter and dispatcher. *)
(*                                                                         *)
(* Python values are modelled as records so that any two can be compared:  *)
(* None is [none |-> TRUE], a str is PyStr(s), an int is PyInt(n).   *)
(* A dict is a function whose domain is its set of keys.                   *)
(***************************************************************************)
EXTENDS Integers, Sequences, FiniteSets, TLC

VARIABLES
    routes,     \* Handler._routes: path -> method -> _APIRoute
    regError,   \* what the last _api_route decorator call raised (or None)
    registry,   \* history: the registrations that succeeded
    event,      \* the raw Lambda event given to Handler.__call__
    parsed,     \* what Backend.parse_request returned (a Request or a list)
    pc,         \* position of each _handle_request coroutine
    called,     \* the route function each attempt invoked (or "none")
    args,       \* the keyword arguments it was invoked with
    cached,     \* the _body and _json slots of the Request of each attempt
    response,   \* the Response each attempt returned (or None)
    escaped,    \* the exception that left each attempt (or None)
    log,        \* the jhalog event (log scope) of each attempt
    completed,  \* attempts in the order in which they ended
    inv,        \* the invocation: state, serialized pairs, result, exception
    life        \* the Handler object: its exit stack and what it released

vars == <<routes, regError, registry, event, parsed, pc, called, args, cached,
          response, escaped, log, completed, inv, life>>

-----------------------------------------------------------------------------
(* Bounds *)

MaxBatch == 2

\* The most bytes of a binary body
MaxBytes == 3

\* The most runs of Handler.__del__ on one Handler
MaxDel == 2

-----------------------------------------------------------------------------
(* Python values *)

None == [none |-> TRUE]
PyStr(s) == [str |-> s]
PyInt(n) == [int |-> n]
EmptyDict == [k \in {} |-> None]

\* dict.get(key, default)
Get(d, key, default) == IF key \in DOMAIN d THEN d[key] ELSE default

\* d[key] = value
Put(d, key, value) == [k \in DOMAIN d \cup {key} |-> IF k = key THEN value ELSE d[k]]

\* d.pop(key)
Pop(d, key) == [k \in DOMAIN d \ {key} |-> d[k]]

\* d.setdefault(key, value)
SetDefault(d, key, value) == IF key \in DOMAIN d THEN d ELSE Put(d, key, value)

\* isinstance(v, dict), for the values of this model
IsDict(v) ==
    DOMAIN v \cap {"none", "str", "int", "json", "raw", "bytes", "utf8", "b64"} = {}

\* bool(v): None, the empty str, zero and the empty dict are false
bool(v) == v \notin {None, PyStr(""), PyInt(0), EmptyDict}

\* str(v): a str is itself, an int its decimal digits
str(v) ==
    CASE "str" \in DOMAIN v -> v
      [] "int" \in DOMAIN v -> PyStr(ToString(v.int))
      [] OTHER -> [repr |-> v]

\* json.dumps / json.loads: a JSON text wraps the value it encodes; loads
\* takes the text or its bytes.
dumps(value) == [json |-> value]
loads(text) == IF "utf8" \in DOMAIN text THEN text.utf8.json ELSE text.json

\* str.encode() of a text that is not base64: its bytes, kept as the text
\* they encode. The bytes of a base64 text are its digits.
encode(text) == IF "b64" \in DOMAIN text THEN text ELSE [utf8 |-> text]

\* The bytes are those of a JSON text.
IsJSON(body) == "utf8" \in DOMAIN body /\ "json" \in DOMAIN body.utf8

\* bytes, bytearray and memoryview: the sequence of the byte values
bytes(seq) == [bytes |-> seq, type |-> "bytes"]
bytearray(body) == [bytes |-> body.bytes, type |-> "bytearray"]
memoryview(body) == [bytes |-> body.bytes, type |-> "memoryview"]

\* isinstance(body, (bytes, bytearray, memoryview))
IsBytes(body) == "bytes" \in DOMAIN body

\* No byte of a UTF-8 text is 0xF8 or above.
IsUtf8(body) == \A k \in DOMAIN body.bytes : body.bytes[k] < 248

RECURSIVE b64digits(_)
\* The base64 digits (0..63, and 64 for the padding "=") of a sequence of bytes
b64digits(b) ==
    IF Len(b) = 0 THEN <<>>
    ELSE IF Len(b) = 1
    THEN <<b[1] \div 4, (b[1] % 4) * 16, 64, 64>>
    ELSE IF Len(b) = 2
    THEN <<b[1] \div 4, (b[1] % 4) * 16 + (b[2] \div 16), (b[2] % 16) * 4, 64>>
    ELSE <<b[1] \div 4, (b[1] % 4) * 16 + (b[2] \div 16),
           (b[2] % 16) * 4 + (b[3] \div 64), b[3] % 64>>
         \o b64digits(SubSeq(b, 4, Len(b)))

RECURSIVE b64bytes(_)
\* The bytes a sequence of base64 digits stands for
b64bytes(d) ==
    IF Len(d) < 4 THEN <<>>
    ELSE (IF d[3] = 64 THEN <<d[1] * 4 + (d[2] \div 16)>>
          ELSE IF d[4] = 64
          THEN <<d[1] * 4 + (d[2] \div 16), (d[2] % 16) * 16 + (d[3] \div 4)>>
          ELSE <<d[1] * 4 + (d[2] \div 16), (d[2] % 16) * 16 + (d[3] \div 4),
                 (d[3] % 4) * 64 + d[4]>>)
         \o b64bytes(SubSeq(d, 5, Len(d)))

\* b64encode(body).decode(): the base64 text of the bytes
b64encode(body) == [b64 |-> b64digits(body.bytes)]

\* b64decode(body): the bytes of a base64 text
b64decode(text) == bytes(b64bytes(text.b64))

-----------------------------------------------------------------------------
(* Route table: Handler._api_route *)

Methods == {"GET", "PUT"}

\* _check_signature(func): the parameters annotated Request or Response
check_signature(func) ==
    IF func \in {"post", "post_bytearray", "post_memoryview", "get_request"}
    THEN [request |-> "Request"]
    ELSE IF func \in {"get_400", "get_401", "get_replaced"}
    THEN [response |-> "Response"]
    ELSE EmptyDict

\* A route that drops the status it is registered with
APIRoute_always_200(func, status_code) ==
    [func |-> func, params |-> check_signature(func), status_code |-> 200]

\* _APIRoute(func, status_code or 200, params)
APIRoute(func, status_code) ==
    [func |-> func, params |-> check_signature(func),
     status_code |-> IF status_code = None \/ status_code = PyInt(0)
                     THEN 200 ELSE status_code.int]

\* The decorator, were it to replace the route of a pair registered twice
api_route_overwrite(table, path, method, func, status_code) ==
    LET table1 == IF path \in DOMAIN table THEN table
                  ELSE Put(table, path, EmptyDict)
        path_routes == table1[path]
    IN  [routes |-> Put(table1, path,
                        Put(path_routes, method, APIRoute(func, status_code))),
         raised |-> IF method \in DOMAIN path_routes
                    THEN [type |-> "ValueError"] ELSE None]

\* The decorator of _api_route: the table it leaves and whether it raised.
api_route(table, path, method, func, status_code) ==
    LET table1 == IF path \in DOMAIN table THEN table
                  ELSE Put(table, path, EmptyDict)
        path_routes == table1[path]
    IN  IF method \in DOMAIN path_routes
        THEN [routes |-> table1, raised |-> [type |-> "ValueError"]]
        ELSE [routes |-> Put(table1, path,
                             Put(path_routes, method, APIRoute(func, status_code))),
              raised |-> None]

-----------------------------------------------------------------------------
(* Exceptions *)

\* HTTPException(status_code, detail, error_detail=...), without headers
HTTPException(status_code, detail, error_detail) ==
    [type |-> "HTTPException", status_code |-> status_code,
     detail |-> detail, headers |-> None, error_detail |-> error_detail]

\* The headers of a 401 that tells the caller how to authenticate
ChallengeHeaders == "www-authenticate" :> PyStr("Bearer")

\* HTTPException(status_code, detail, headers=...)
HTTPException_with_headers(status_code, detail, headers) ==
    [HTTPException(status_code, detail, None) EXCEPT !.headers = headers]

\* HTTPException.error_detail: the internal detail, else the detail, else None
HTTPException_error_detail(exception) ==
    IF bool(exception.error_detail) THEN str(exception.error_detail)
    ELSE IF bool(exception.detail) THEN str(exception.detail)
    ELSE None

ValidationError(errors) == [type |-> "ValidationError", errors |-> errors]
ValueError == [type |-> "ValueError"]
TimeoutError == [type |-> "TimeoutError"]
UnicodeDecodeError == [type |-> "UnicodeDecodeError"]

-----------------------------------------------------------------------------
(* jhalog events (log scopes) *)

\* logger.create_event(method, path, id, user_agent).__enter__()
create_event(method, path, id) ==
    [state |-> "open", method |-> method, path |-> path, id |-> id,
     status_code |-> 0, error_detail |-> None]

NoEvent ==
    [state |-> "none", method |-> "", path |-> "", id |-> None,
     status_code |-> 0, error_detail |-> None]

\* event.status_code_from_exception(exception): no handler of the default
\* table classifies ValueError or TimeoutError, so the status is the default.
status_code_from_exception(exception) ==
    [status_code |-> 500, message |-> None]

-----------------------------------------------------------------------------
(* Responses: each operation returns the Response and the log event of the   *)
(* context, which the status setters write to.                               *)

\* The status setter, were it not to write to the log event
status_code_setter_unlogged(self, ev, value) ==
    LET stored == IF self.content = None /\ value = 200 THEN 204 ELSE value
    IN  [response |-> [self EXCEPT !.status_code = stored], event |-> ev]

\* Response.status_code setter
status_code_setter(self, ev, value) ==
    LET stored == IF self.content = None /\ value = 200 THEN 204 ELSE value
    IN  [response |-> [self EXCEPT !.status_code = stored],
         event |-> [ev EXCEPT !.status_code = stored]]

\* The content setter, were it to leave the status as it is
content_setter_keeps_status(self, ev, value) ==
    [response |-> [self EXCEPT !.content = value], event |-> ev]

\* Response.content setter
content_setter(self, ev, value) ==
    IF value # None /\ self.status_code = 204
    THEN [response |-> [self EXCEPT !.content = value, !.status_code = 200],
          event |-> [ev EXCEPT !.status_code = 200]]
    ELSE [response |-> [self EXCEPT !.content = value], event |-> ev]

\* Response(...), were the log event of the context one global that each
\* create_event overwrites: once every attempt has started, it is the event
\* of the last one.
Response_shared(content, status_code, headers, media_type, MEDIA_TYPE, ev) ==
    LET blank == [content |-> content,
                  media_type |-> IF media_type # "" THEN media_type
                                 ELSE MEDIA_TYPE,
                  status_code |-> 0, headers |-> EmptyDict]
        set == status_code_setter(blank, ev, status_code)
        given == IF headers = None THEN EmptyDict ELSE headers
        current == IF log # <<>> /\ \A j \in DOMAIN log : log[j].state # "none"
                   THEN log[Len(log)] ELSE ev
    IN  [response |-> [set.response EXCEPT
                          !.headers = Put(given, "x-request-id", current.id)],
         event |-> set.event]

\* Response(content, status_code, headers, media_type), of the class whose
\* _MEDIA_TYPE is given ("" for None)
Response(content, status_code, headers, media_type, MEDIA_TYPE, ev) ==
    LET blank == [content |-> content,
                  media_type |-> IF media_type # "" THEN media_type
                                 ELSE MEDIA_TYPE,
                  status_code |-> 0, headers |-> EmptyDict]
        set == status_code_setter(blank, ev, status_code)
        given == IF headers = None THEN EmptyDict ELSE headers
    IN  [response |-> [set.response EXCEPT
                          !.headers = Put(given, "x-request-id", ev.id)],
         event |-> set.event]

\* JSONResponse(content=..., status_code=...)
JSONResponse(content, status_code, ev) ==
    Response(content, status_code, None, "", "application/json", ev)

-----------------------------------------------------------------------------
(* Requests: _requests.Request and _backends.aws_lambda.Request *)

\* str.lower() on the header names of this model
Lower(key) ==
    CASE key = "X-Request-Id" -> "x-request-id"
      [] key = "X-REQUEST-ID" -> "x-request-id"
      [] key = "User-Agent" -> "user-agent"
      [] OTHER -> key

\* The order in which the payloads of this model list their headers
HeaderOrder ==
    <<"User-Agent", "user-agent", "X-Request-Id", "X-REQUEST-ID", "x-request-id">>

\* list(headers): the keys of the headers of a payload, in insertion order
KeysInOrder(headers) == SelectSeq(HeaderOrder, LAMBDA h : h \in DOMAIN headers)

\* {key.lower(): value for key, value in headers.items()}, over the keys in
\* insertion order: of two keys with the same lower-case name, the one
\* inserted last gives the value.
LowerKeys(headers, order) ==
    [k \in {Lower(h) : h \in DOMAIN headers} |->
        LET last == CHOOSE i \in 1..Len(order) :
                        /\ Lower(order[i]) = k
                        /\ \A j \in (i + 1)..Len(order) : Lower(order[j]) # k
        IN  headers[order[last]]]

\* aws_lambda.Request(event, context, raises_exceptions)
Request_init(ev, raises_exceptions) ==
    LET request_context == ev.requestContext
        http == Get(request_context, "http", None)
        method == IF http = None THEN request_context.httpMethod ELSE http.method
        path == IF http = None THEN request_context.path ELSE http.path
        given == Get(ev, "headers", None)
        headers0 == IF given = None \/ given = EmptyDict THEN EmptyDict ELSE given
        headers == IF "requestId" \in DOMAIN request_context
                   THEN SetDefault(headers0, "x-request-id",
                                   request_context.requestId)
                   ELSE headers0
        order == KeysInOrder(headers0)
                    \o (IF "x-request-id" \in DOMAIN headers
                            /\ "x-request-id" \notin DOMAIN headers0
                        THEN <<"x-request-id">> ELSE <<>>)
    IN  [event |-> IF headers0 = EmptyDict THEN ev ELSE Put(ev, "headers", headers),
         path |-> path, method |-> method,
         headers |-> LowerKeys(headers, order),
         raises_exceptions |-> raises_exceptions]

\* Request.body(), were it to ignore the isBase64Encoded flag of the event
Request_body_undecoded(request) ==
    LET body == Get(request.event, "body", None)
    IN  IF body = None THEN None ELSE encode(body)

\* aws_lambda.Request.body(): the bytes of the body, decoded from base64 when
\* the event says so
Request_body(request) ==
    LET body == Get(request.event, "body", None)
    IN  IF body = None THEN None
        ELSE IF Get(request.event, "isBase64Encoded", FALSE)
             THEN b64decode(encode(body))
             ELSE encode(body)

\* A slot of the Request that is not set yet
Unset == [unset |-> TRUE]

\* The slots of a Request on which neither body() nor json() was awaited
NoCache == [body |-> Unset, json |-> Unset]

\* Request.json(): the decoded body, the raw body when it is not JSON, or None
Request_json(request) ==
    LET body == Request_body(request)
    IN  IF body = None THEN None
        ELSE IF IsJSON(body) THEN loads(body) ELSE body

\* json.loads(body) raises UnicodeDecodeError, which is no JSONDecodeError:
\* the json module of the standard library on bytes that are not UTF-8
\* (orjson raises JSONDecodeError for them).
json_raises(request, decoder) ==
    LET body == Request_body(request)
    IN  /\ decoder = "json"
        /\ body # None
        /\ IsBytes(body)
        /\ ~IsUtf8(body)

-----------------------------------------------------------------------------
(* Route functions *)

\* What a route function that neither reads its arguments nor makes a
\* Response ends with
Plain(kind, value, suspends, ev) ==
    [kind |-> kind, value |-> value, suspends |-> suspends, event |-> ev,
     in_flight |-> None]

\* response.headers["test"] = "test"; response.status_code = status_code
\* on the in-flight Response the route function was given
Touched(in_flight, ev, status_code) ==
    status_code_setter(
        [in_flight EXCEPT !.headers = Put(@, "test", PyStr("test"))],
        ev, status_code)

\* What awaiting the coroutine of a route function ends with, whether the
\* function suspends (awaits I/O) before it ends, and the log event of its
\* context when it ends. The functions of the test-suite never suspend;
\* get_io awaits I/O and sleep never ends. created and the post functions
\* return a Response of their own. get_400, get_401 and get_replaced write to
\* the in-flight Response they are given, which is in_flight as they leave it
\* (None for the functions that are given none); get_replaced then returns a
\* Response of its own.
RouteFunction(func, kwargs, ev) ==
    CASE func = "get" -> Plain("return", None, FALSE, ev)
      [] func = "put" -> Plain("return", PyStr("put"), FALSE, ev)
      [] func = "get_only" -> Plain("return", PyStr("get"), FALSE, ev)
      [] func = "get400" ->
            Plain("raise", HTTPException(400, None, None), FALSE, ev)
      [] func = "get503" ->
            Plain("raise", HTTPException(503, None, None), FALSE, ev)
      [] func = "get401headers" ->
            Plain("raise",
                  HTTPException_with_headers(401, None, ChallengeHeaders),
                  FALSE, ev)
      [] func = "get400msg" ->
            Plain("raise",
                  HTTPException(400, PyStr("Custom Error Message"), None),
                  FALSE, ev)
      [] func = "get400detail" ->
            Plain("raise",
                  HTTPException(400, PyStr("Custom Error Message"),
                                PyStr("detail")),
                  FALSE, ev)
      [] func = "get500" -> Plain("raise", ValueError, FALSE, ev)
      [] func = "get422" -> Plain("return", kwargs["value"], FALSE, ev)
      [] func = "get_io" -> Plain("return", PyStr("io"), TRUE, ev)
      [] func = "sleep" -> Plain("hang", None, TRUE, ev)
      [] func = "created" ->
            LET made == Response(PyStr("created"), 201, None, "text/plain",
                                 "", ev)
            IN  Plain("return", made.response, FALSE, made.event)
      [] func = "get_request" -> Plain("return", None, FALSE, ev)
      [] func = "get_400" ->
            LET set == Touched(kwargs["response"], ev, 400)
            IN  [kind |-> "return", value |-> PyStr("Error"),
                 suspends |-> FALSE, event |-> set.event,
                 in_flight |-> set.response]
      [] func = "get_401" ->
            LET set == status_code_setter(kwargs["response"], ev, 401)
            IN  [kind |-> "return", value |-> None, suspends |-> FALSE,
                 event |-> set.event, in_flight |-> set.response]
      [] func = "get_replaced" ->
            LET set == Touched(kwargs["response"], ev, 400)
                made == Response(PyStr("replaced"), 201, None, "text/plain",
                                 "", set.event)
            IN  [kind |-> "return", value |-> made.response,
                 suspends |-> FALSE, event |-> made.event,
                 in_flight |-> set.response]
      [] func = "post" ->
            LET made == Response(Request_body(kwargs["request"]), 200, None,
                                 "application/octet-stream", "", ev)
            IN  Plain("return", made.response, FALSE, made.event)
      [] func = "post_bytearray" ->
            LET made == Response(bytearray(Request_body(kwargs["request"])),
                                 200, None, "application/octet-stream", "", ev)
            IN  Plain("return", made.response, FALSE, made.event)
      [] func = "post_memoryview" ->
            LET made == Response(memoryview(Request_body(kwargs["request"])),
                                 200, None, "application/octet-stream", "", ev)
            IN  Plain("return", made.response, FALSE, made.event)

\* The names of the parameters of the route function
Parameters(func) ==
    CASE func = "get422" -> {"value"}
      [] func \in {"post", "post_bytearray", "post_memoryview", "get_request"}
            -> {"request"}
      [] func \in {"get_400", "get_401", "get_replaced"} -> {"response"}
      [] OTHER -> {}

\* validate_arguments(func): the field errors of calling func(**kwargs)
validate_arguments(func, kwargs) ==
    IF func = "get422" /\ "value" \notin DOMAIN kwargs
    THEN PyStr("value_error.missing")
    ELSE IF func = "get422" /\ "int" \notin DOMAIN kwargs["value"]
    THEN PyStr("type_error.integer")
    ELSE IF DOMAIN kwargs \ Parameters(func) # {}
    THEN PyStr("unexpected keyword arguments")
    ELSE None

-----------------------------------------------------------------------------
(* Backend.parse_request and the per-source record parsers *)

\* event_source.split(':', 1)[1]
SourceName(event_source) ==
    CASE event_source = "aws:sqs" -> "sqs"
      [] event_source = "aws:sns" -> "sns"
      [] event_source = "aws:mq" -> "mq"
      [] OTHER -> "unknown"

\* event_source.split(':', 1) has a second part
HasColon(event_source) == event_source # "kinesis"

\* _parse_event_sqs: the record events it yields
parse_event_sqs(ev) ==
    [i \in 1..Len(ev.Records) |->
        LET record == ev.Records[i]
            decoded == loads(record.body)
        IN  Put(Put(Put(decoded, "eventSource", "aws:sqs"),
                    "eventData", Pop(record, "body")),
                "eventRaisesExceptions", FALSE)]

\* _parse_event_sns
parse_event_sns(ev) ==
    [i \in 1..Len(ev.Records) |->
        LET record == ev.Records[i]
            decoded == loads(record.Sns.Message)
        IN  Put(Put(decoded, "eventSource", "aws:sns"),
                "eventData", [record EXCEPT !.Sns = Pop(record.Sns, "Message")])]

\* _parse_event_mq
parse_event_mq(ev) ==
    [i \in 1..Len(ev.messages) |->
        LET record == ev.messages[i]
            decoded == loads(record.data)
        IN  Put(Put(decoded, "eventSource", "aws:mq"),
                "eventData", Pop(record, "data"))]

\* The raw event as the record parsers leave it: each envelope field popped.
PoppedEvent(ev, name) ==
    CASE name = "sqs" ->
            [ev EXCEPT !.Records =
                [i \in 1..Len(ev.Records) |-> Pop(ev.Records[i], "body")]]
      [] name = "sns" ->
            [ev EXCEPT !.Records =
                [i \in 1..Len(ev.Records) |->
                    [ev.Records[i] EXCEPT !.Sns = Pop(ev.Records[i].Sns, "Message")]]]
      [] name = "mq" ->
            [ev EXCEPT !.messages =
                [i \in 1..Len(ev.messages) |-> Pop(ev.messages[i], "data")]]
      [] OTHER -> ev

\* record.pop(field) of the record parser of the source
RecordText(record, name) ==
    CASE name = "sqs" -> record.body
      [] name = "sns" -> record.Sns.Message
      [] name = "mq" -> record.data

\* The record still has the field its parser pops.
HasText(record, name) ==
    CASE name = "sqs" -> "body" \in DOMAIN record
      [] name = "sns" -> "Message" \in DOMAIN record.Sns
      [] name = "mq" -> "data" \in DOMAIN record

\* What making the Request of a record raises: pop on a record without the
\* field, loads on a text that is not JSON, the item assignment on a JSON
\* value that is not an object, and event["requestContext"] on an object
\* without it
RecordFault(record, name) ==
    IF ~HasText(record, name) THEN [type |-> "KeyError"]
    ELSE LET text == RecordText(record, name)
         IN  IF "json" \notin DOMAIN text THEN [type |-> "JSONDecodeError"]
             ELSE IF ~IsDict(text.json) THEN [type |-> "TypeError"]
             ELSE IF "requestContext" \notin DOMAIN text.json
             THEN [type |-> "KeyError"]
             ELSE None

\* event["Records"] or event["messages"]
RecordsOf(ev, name) == IF name = "mq" THEN ev.messages ELSE ev.Records

\* The first record whose Request cannot be made, 0 when there is none
FirstBadRecord(ev, name) ==
    LET records == RecordsOf(ev, name)
        bad == {i \in 1..Len(records) :
                   RecordFault(records[i], name) # None}
    IN  IF bad = {} THEN 0 ELSE CHOOSE i \in bad : \A j \in bad : i <= j

\* The raw event when the list comprehension stopped at record k: the
\* envelope fields of the records up to k are popped, the others are not.
PoppedUpTo(ev, name, k) ==
    LET popped == PoppedEvent(ev, name)
    IN  IF name = "mq"
        THEN [ev EXCEPT !.messages =
                [i \in 1..Len(ev.messages) |->
                    IF i <= k THEN popped.messages[i] ELSE ev.messages[i]]]
        ELSE [ev EXCEPT !.Records =
                [i \in 1..Len(ev.Records) |->
                    IF i <= k THEN popped.Records[i] ELSE ev.Records[i]]]

\* Backend.parse_request: [isRequest, value, raised, event]
parse_request(ev) ==
    IF "requestContext" \in DOMAIN ev
    THEN LET request == Request_init(ev, TRUE)
         IN  [isRequest |-> TRUE, value |-> request, raised |-> None,
              event |-> request.event]
    ELSE LET found ==
                IF "eventSource" \in DOMAIN ev THEN PyStr(ev.eventSource)
                ELSE IF "Records" \in DOMAIN ev /\ Len(ev.Records) > 0
                        /\ "eventSource" \in DOMAIN ev.Records[1]
                     THEN PyStr(ev.Records[1].eventSource)
                     ELSE None
         IN  IF found = None
             THEN [isRequest |-> FALSE, value |-> <<>>, raised |-> None,
                   event |-> ev]
             ELSE LET name == SourceName(found.str)
                      record_events ==
                          CASE name = "sqs" -> parse_event_sqs(ev)
                            [] name = "sns" -> parse_event_sns(ev)
                            [] name = "mq" -> parse_event_mq(ev)
                            [] OTHER -> <<>>
                  IN  IF ~HasColon(found.str)
                      THEN [isRequest |-> FALSE, value |-> <<>>,
                            raised |-> [type |-> "IndexError"], event |-> ev]
                      ELSE IF name = "unknown"
                      THEN [isRequest |-> FALSE, value |-> <<>>,
                            raised |-> [type |-> "AttributeError"], event |-> ev]
                      ELSE IF FirstBadRecord(ev, name) # 0
                      THEN LET k == FirstBadRecord(ev, name)
                           IN  [isRequest |-> FALSE, value |-> <<>>,
                                raised |-> RecordFault(RecordsOf(ev, name)[k],
                                                       name),
                                event |-> PoppedUpTo(ev, name, k)]
                      ELSE [isRequest |-> FALSE,
                            value |->
                              [i \in 1..Len(record_events) |->
                                  Request_init(record_events[i],
                                      Get(record_events[i],
                                          "eventRaisesExceptions", TRUE))],
                            raised |-> None,
                            event |-> PoppedEvent(ev, name)]

-----------------------------------------------------------------------------
(* Dispatcher: Handler._prepare_request, _call_route_function and the        *)
(* except clauses of _handle_request                                          *)

\* The injection, were a key of the body to win over the parameter of its name
inject_body_first(kwargs, params, request, in_flight) ==
    [name \in DOMAIN kwargs \cup DOMAIN params |->
        IF name \in DOMAIN kwargs THEN kwargs[name]
        ELSE IF params[name] = "Request" THEN request ELSE in_flight]

\* The request and the in-flight Response, passed under the names of the
\* parameters that _check_signature found annotated with their classes
inject(kwargs, params, request, in_flight) ==
    [name \in DOMAIN kwargs \cup DOMAIN params |->
        IF name \notin DOMAIN params THEN kwargs[name]
        ELSE IF params[name] = "Request" THEN request ELSE in_flight]

\* The JSON modules json.py imports: orjson when installed, else json
Decoders == {"orjson", "json"}

\* _prepare_request, were it to answer 404 for every pair without a route
prepare_request_404(table, request, ev, decoder) ==
    IF \/ request.path \notin DOMAIN table
       \/ request.method \notin DOMAIN table[request.path]
    THEN [raised |-> HTTPException(404, None, None), response |-> None,
          func |-> "none", kwargs |-> EmptyDict, event |-> ev,
          cached |-> NoCache]
    ELSE LET route == table[request.path][request.method]
             made == JSONResponse(None, route.status_code, ev)
             body == Request_json(request)
             kwargs == inject(IF IsDict(body) THEN body ELSE EmptyDict,
                              route.params, request, made.response)
             errors == validate_arguments(route.func, kwargs)
         IN  IF json_raises(request, decoder)
             THEN [raised |-> UnicodeDecodeError, response |-> made.response,
                   func |-> "none", kwargs |-> EmptyDict, event |-> made.event,
                   cached |-> [NoCache EXCEPT !.body = Request_body(request)]]
             ELSE [raised |-> IF errors = None THEN None
                              ELSE ValidationError(errors),
                   response |-> made.response,
                   func |-> IF errors = None THEN route.func ELSE "none",
                   kwargs |-> kwargs, event |-> made.event,
                   cached |-> [body |-> Request_body(request), json |-> body]]

\* _prepare_request, were it to await request.json() before it looks the
\* route up
prepare_request_eager(table, request, ev, decoder) ==
    IF request.path \notin DOMAIN table
    THEN [raised |-> HTTPException(404, None, None), response |-> None,
          func |-> "none", kwargs |-> EmptyDict, event |-> ev,
          cached |-> [body |-> Request_body(request),
                     json |-> Request_json(request)]]
    ELSE IF request.method \notin DOMAIN table[request.path]
    THEN [raised |-> HTTPException(405, None, None), response |-> None,
          func |-> "none", kwargs |-> EmptyDict, event |-> ev,
          cached |-> [body |-> Request_body(request),
                     json |-> Request_json(request)]]
    ELSE LET route == table[request.path][request.method]
             made == JSONResponse(None, route.status_code, ev)
             body == Request_json(request)
             kwargs == inject(IF IsDict(body) THEN body ELSE EmptyDict,
                              route.params, request, made.response)
             errors == validate_arguments(route.func, kwargs)
         IN  IF json_raises(request, decoder)
             THEN [raised |-> UnicodeDecodeError, response |-> made.response,
                   func |-> "none", kwargs |-> EmptyDict, event |-> made.event,
                   cached |-> [NoCache EXCEPT !.body = Request_body(request)]]
             ELSE [raised |-> IF errors = None THEN None
                              ELSE ValidationError(errors),
                   response |-> made.response,
                   func |-> IF errors = None THEN route.func ELSE "none",
                   kwargs |-> kwargs, event |-> made.event,
                   cached |-> [body |-> Request_body(request), json |-> body]]

\* _prepare_request: the in-flight Response and the route function called,
\* or the exception raised. decoder is the JSON module the build imports.
prepare_request(table, request, ev, decoder) ==
    IF request.path \notin DOMAIN table
    THEN [raised |-> HTTPException(404, None, None), response |-> None,
          func |-> "none", kwargs |-> EmptyDict, event |-> ev,
          cached |-> NoCache]
    ELSE IF request.method \notin DOMAIN table[request.path]
    THEN [raised |-> HTTPException(405, None, None), response |-> None,
          func |-> "none", kwargs |-> EmptyDict, event |-> ev,
          cached |-> NoCache]
    ELSE LET route == table[request.path][request.method]
             made == JSONResponse(None, route.status_code, ev)
             body == Request_json(request)
             kwargs == inject(IF IsDict(body) THEN body ELSE EmptyDict,
                              route.params, request, made.response)
             errors == validate_arguments(route.func, kwargs)
         IN  IF json_raises(request, decoder)
             THEN [raised |-> UnicodeDecodeError, response |-> made.response,
                   func |-> "none", kwargs |-> EmptyDict, event |-> made.event,
                   cached |-> [NoCache EXCEPT !.body = Request_body(request)]]
             ELSE [raised |-> IF errors = None THEN None
                              ELSE ValidationError(errors),
                   response |-> made.response,
                   func |-> IF errors = None THEN route.func ELSE "none",
                   kwargs |-> kwargs, event |-> made.event,
                   cached |-> [body |-> Request_body(request), json |-> body]]

\* isinstance(content, Response)
IsResponse(content) == "status_code" \in DOMAIN content

\* _call_route_function, were it to keep the in-flight Response and take only
\* the content of a Response the route function returns
call_route_function_keeps_in_flight(content, in_flight, ev) ==
    LET set == content_setter(in_flight, ev,
                              IF IsResponse(content) THEN content.content
                              ELSE content)
    IN  [response |-> set.response, event |-> set.event, raised |-> None]

\* _call_route_function, once wait_for has returned content
call_route_function(content, in_flight, ev) ==
    IF IsResponse(content)
    THEN [response |-> content, event |-> ev, raised |-> None]
    ELSE LET set == content_setter(in_flight, ev, content)
         IN  [response |-> set.response, event |-> set.event, raised |-> None]

\* except HTTPException, were it to re-raise like the last clause
except_HTTPException_reraised(request, ev, exception) ==
    LET ev1 == [ev EXCEPT
                  !.error_detail = HTTPException_error_detail(exception),
                  !.status_code = exception.status_code]
        made == JSONResponse(IF exception.detail = None THEN None
                             ELSE [detail |-> exception.detail],
                             exception.status_code, ev1)
    IN  IF request.raises_exceptions
        THEN [response |-> None, event |-> made.event, raised |-> exception]
        ELSE [response |-> made.response, event |-> made.event, raised |-> None]

\* except HTTPException, were it to answer with the status alone
except_HTTPException_status_only(request, ev, exception) ==
    LET ev1 == [ev EXCEPT
                  !.error_detail = HTTPException_error_detail(exception),
                  !.status_code = exception.status_code]
        made == JSONResponse(None, exception.status_code, ev1)
    IN  [response |-> made.response, event |-> made.event, raised |-> None]

\* except HTTPException, were it to answer with the detail it logs
except_HTTPException_leaks(request, ev, exception) ==
    LET ev1 == [ev EXCEPT
                  !.error_detail = HTTPException_error_detail(exception),
                  !.status_code = exception.status_code]
        made == JSONResponse(IF ev1.error_detail = None THEN None
                             ELSE [detail |-> ev1.error_detail],
                             exception.status_code, ev1)
    IN  [response |-> made.response, event |-> made.event, raised |-> None]

\* except HTTPException as exception
except_HTTPException(request, ev, exception) ==
    LET ev1 == [ev EXCEPT
                  !.error_detail = HTTPException_error_detail(exception),
                  !.status_code = exception.status_code]
        made == JSONResponse(IF exception.detail = None THEN None
                             ELSE [detail |-> exception.detail],
                             exception.status_code, ev1)
    IN  [response |-> made.response, event |-> made.event, raised |-> None]

\* except ValidationError, were it to re-raise like the last clause
except_ValidationError_reraised(request, ev, exception) ==
    LET ev1 == [ev EXCEPT !.error_detail = exception.errors,
                          !.status_code = 422]
        made == JSONResponse([detail |-> exception.errors], 422, ev1)
    IN  IF request.raises_exceptions
        THEN [response |-> None, event |-> made.event, raised |-> exception]
        ELSE [response |-> made.response, event |-> made.event, raised |-> None]

\* except ValidationError as exception
except_ValidationError(request, ev, exception) ==
    LET ev1 == [ev EXCEPT !.error_detail = exception.errors,
                          !.status_code = 422]
        made == JSONResponse([detail |-> exception.errors], 422, ev1)
    IN  [response |-> made.response, event |-> made.event, raised |-> None]

\* except Exception, were it to ignore raises_exceptions
except_Exception_absorbed(request, ev, exception) ==
    LET classified == status_code_from_exception(exception)
        made == JSONResponse(classified.message, classified.status_code, ev)
    IN  [response |-> made.response, event |-> made.event, raised |-> None]

\* except Exception as exception
except_Exception(request, ev, exception) ==
    LET classified == status_code_from_exception(exception)
        made == JSONResponse(classified.message, classified.status_code, ev)
    IN  IF request.raises_exceptions
        THEN [response |-> None, event |-> made.event, raised |-> exception]
        ELSE [response |-> made.response, event |-> made.event, raised |-> None]

\* The except clauses of _handle_request, in their order
handle_exception(request, ev, exception) ==
    CASE exception.type = "HTTPException" ->
            except_HTTPException(request, ev, exception)
      [] exception.type = "ValidationError" ->
            except_ValidationError(request, ev, exception)
      [] OTHER -> except_Exception(request, ev, exception)

\* gather, were it to return the results as they complete
gather_as_completed(results, n) == [i \in 1..n |-> results[completed[i]]]

\* gather(*coroutines): the results in the order of the arguments
gather(results, n) == [i \in 1..n |-> results[i]]

\* zip(responses, requests)
zip(responses, requests) ==
    [i \in 1..(IF Len(responses) < Len(requests)
               THEN Len(responses) ELSE Len(requests)) |->
        <<responses[i], requests[i]>>]

-----------------------------------------------------------------------------
(* Serialization: Backend.serialize_response(s) *)

\* aio_lambda_api.status.get_status_message
get_status_message(status_code) ==
    CASE status_code = 400 -> "Bad Request"
      [] status_code = 401 -> "Unauthorized"
      [] status_code = 404 -> "Not Found"
      [] status_code = 405 -> "Method Not Allowed"
      [] status_code = 422 -> "Unprocessable Entity"
      [] status_code = 500 -> "Internal Server Error"
      [] status_code = 503 -> "Service Unavailable"
      [] OTHER -> "Unknown"

\* Response._render / JSONResponse._render
render(self, content) ==
    IF self.media_type = "application/json" THEN dumps(content) ELSE content

\* Response.body(): the rendered body and the headers it leaves
Response_body(self) ==
    LET content == IF self.content = None /\ self.status_code >= 400
                   THEN [detail |-> PyStr(get_status_message(self.status_code))]
                   ELSE self.content
        body == IF content = None THEN None ELSE render(self, content)
        sized == IF content = None THEN self.headers
                 ELSE Put(self.headers, "content-length", [len |-> body])
        typed == IF content = None \/ self.media_type = "" THEN sized
                 ELSE Put(sized, "content-type", self.media_type)
    IN  [body |-> body, headers |-> typed]

\* serialize_response, were it to encode the body without setting the flag
serialize_response_unflagged(resp, request) ==
    LET rendered == Response_body(resp)
    IN  [body |-> IF IsBytes(rendered.body) THEN b64encode(rendered.body)
                  ELSE rendered.body,
         statusCode |-> ToString(resp.status_code),
         headers |-> rendered.headers,
         isBase64Encoded |-> FALSE]

\* Backend.serialize_response
serialize_response(resp, request) ==
    LET rendered == Response_body(resp)
    IN  [body |-> IF IsBytes(rendered.body) THEN b64encode(rendered.body)
                  ELSE rendered.body,
         statusCode |-> ToString(resp.status_code),
         headers |-> rendered.headers,
         isBase64Encoded |-> IsBytes(rendered.body)]

\* _serialize_event_sqs, were it to test status_code > 400
serialize_event_sqs_gt(resp_req) ==
    LET failures == SelectSeq(resp_req, LAMBDA pair : pair[1].status_code > 400)
    IN  IF Len(failures) > 0
        THEN [batchItemFailures |->
                [k \in 1..Len(failures) |->
                    [itemIdentifier |-> failures[k][2].event.eventData.messageId]]]
        ELSE None

\* _serialize_event_sqs, were it to report an empty list of failures
serialize_event_sqs_always(resp_req) ==
    LET failures == SelectSeq(resp_req, LAMBDA pair : pair[1].status_code >= 400)
    IN  [batchItemFailures |->
            [k \in 1..Len(failures) |->
                [itemIdentifier |-> failures[k][2].event.eventData.messageId]]]

\* Backend._serialize_event_sqs
serialize_event_sqs(resp_req) ==
    LET failures == SelectSeq(resp_req, LAMBDA pair : pair[1].status_code >= 400)
    IN  IF Len(failures) > 0
        THEN [batchItemFailures |->
                [k \in 1..Len(failures) |->
                    [itemIdentifier |-> failures[k][2].event.eventData.messageId]]]
        ELSE None

\* Backend.serialize_responses
serialize_responses(resp_req) ==
    IF Len(resp_req) = 0 THEN None
    ELSE IF SourceName(resp_req[1][2].event.eventSource) = "sqs"
         THEN serialize_event_sqs(resp_req)
         ELSE None

-----------------------------------------------------------------------------
(* Inputs: the events of the test-suite (conftest.init_event_context)        *)

\* A body of bytes is sent as its base64 text, flagged as encoded.
init_event_context(path, method, body, request_id) ==
    [version |-> "2.0", rawPath |-> path, headers |-> EmptyDict,
     requestContext |-> [http |-> [method |-> method, path |-> path],
                         requestId |-> request_id],
     isBase64Encoded |-> IsBytes(body),
     body |-> IF IsBytes(body) THEN b64encode(body) ELSE body]

Payload(path, method, body) == [path |-> path, method |-> method, body |-> body]

\* One payload per outcome: 204, 200, 400 (without detail, with a detail, with
\* a detail and an internal detail), 500, 422, 404, 405, a 200 after I/O, a
\* timeout and a 201 of a Response the route function made.
TestPayloads ==
    {Payload("/", "GET", dumps(EmptyDict)),
     Payload("/raise_422", "GET", dumps([value |-> PyInt(1)])),
     Payload("/raise_400", "GET", dumps(EmptyDict)),
     Payload("/raise_400_with_message", "GET", dumps(EmptyDict)),
     Payload("/raise_400_with_detail", "GET", dumps(EmptyDict)),
     Payload("/raise_500", "GET", dumps(EmptyDict)),
     Payload("/raise_422", "GET", dumps([value |-> PyStr("a")])),
     Payload("/not_exists", "GET", dumps(EmptyDict)),
     Payload("/get_only", "PUT", dumps(EmptyDict)),
     Payload("/io", "GET", dumps(EmptyDict)),
     Payload("/sleep", "GET", dumps(EmptyDict)),
     Payload("/created", "GET", dumps(EmptyDict))}

BatchKinds == {"sqs", "sns", "mq"}

\* The ids of the records of a batch: ascending or descending.
RecordIds(n, rev) == [i \in 1..n |-> IF rev THEN n + 1 - i ELSE i]

BatchEvent(kind, payloads, rev) ==
    LET n == Len(payloads)
        ids == RecordIds(n, rev)
        text(i) == dumps(init_event_context(payloads[i].path, payloads[i].method,
                                            payloads[i].body,
                                            PyStr("r" \o ToString(ids[i]))))
    IN  CASE kind = "sqs" ->
                [Records |-> [i \in 1..n |->
                    [messageId |-> ToString(ids[i]), body |-> text(i),
                     eventSource |-> "aws:sqs"]]]
          [] kind = "sns" ->
                [Records |-> [i \in 1..n |->
                    [messageId |-> ToString(ids[i]), Sns |-> [Message |-> text(i)],
                     eventSource |-> "aws:sns"]]]
          [] kind = "mq" ->
                [eventSource |-> "aws:mq",
                 messages |-> [i \in 1..n |->
                    [messageId |-> ToString(ids[i]), data |-> text(i)]]]

\* The API Gateway event of a payload, as its test sends it
DirectEvent(payload) ==
    init_event_context(payload.path, payload.method, payload.body, PyStr("r0"))

\* The byte values of the binary bodies: NUL, "t" and a byte of no UTF-8 text
Bytes == {0, 116, 255}

\* The binary bodies of at most MaxBytes bytes
BinaryBodies == {bytes(seq) : seq \in UNION {[1..n -> Bytes] : n \in 0..MaxBytes}}

\* The routes that answer with the body of the request
BinaryPaths == {"/binary", "/binary_bytearray", "/binary_memoryview"}

\* The payloads of test_binary_body
BinaryPayloads ==
    {Payload(path, "POST", body) : path \in BinaryPaths, body \in BinaryBodies}

\* The routes whose functions are given the Request or the in-flight Response
InjectPaths == {"/inject_request", "/inject_400", "/401", "/replaced"}

\* The bodies sent to them: a JSON string, an empty JSON object, and JSON
\* objects with the name of an injected parameter as a key
InjectBodies ==
    {dumps(PyStr("1")), dumps(EmptyDict),
     dumps([request |-> PyStr("body")]),
     dumps([response |-> PyStr("body")])}

\* The payloads of test_inject_request and test_inject_response
InjectPayloads ==
    {Payload(path, "GET", body) : path \in InjectPaths, body \in InjectBodies}

\* The payloads sent in direct invocations only
DirectOnlyPayloads ==
    {Payload("/raise_503", "GET", dumps(EmptyDict)),
     Payload("/raise_401_with_headers", "GET", dumps(EmptyDict)),
     Payload("/", "GET", None)}
        \cup BinaryPayloads \cup InjectPayloads

\* The headers a caller sends: none, a correlation id under three
\* capitalisations of its name, a user agent, and both
CallerHeaders ==
    {EmptyDict,
     "x-request-id" :> PyStr("c1"),
     "X-Request-Id" :> PyStr("c1"),
     "X-REQUEST-ID" :> PyStr("c1"),
     "User-Agent" :> PyStr("ua"),
     ("User-Agent" :> PyStr("ua")) @@ ("X-Request-Id" :> PyStr("c1"))}

\* init_event_context(headers=...): the event of GET / with these headers
HeaderEvent(headers) ==
    Put(DirectEvent(Payload("/", "GET", dumps(EmptyDict))), "headers", headers)

HeaderEvents == {HeaderEvent(headers) : headers \in CallerHeaders}

\* A batch of GET requests of the given paths, each with an x-request-id
\* header of its own beside the requestId of its record
HeaderBatchEvent(kind, paths) ==
    LET n == Len(paths)
        text(i) == dumps(Put(init_event_context(paths[i], "GET",
                                                dumps(EmptyDict),
                                                PyStr("r" \o ToString(i))),
                             "headers",
                             "x-request-id" :> PyStr("c" \o ToString(i))))
    IN  CASE kind = "sqs" ->
                [Records |-> [i \in 1..n |->
                    [messageId |-> ToString(i), body |-> text(i),
                     eventSource |-> "aws:sqs"]]]
          [] kind = "sns" ->
                [Records |-> [i \in 1..n |->
                    [messageId |-> ToString(i), Sns |-> [Message |-> text(i)],
                     eventSource |-> "aws:sns"]]]
          [] kind = "mq" ->
                [eventSource |-> "aws:mq",
                 messages |-> [i \in 1..n |->
                    [messageId |-> ToString(i), data |-> text(i)]]]

\* Batches of two such requests that end in the order of their records and in
\* the other order: one awaits I/O, the other raises at once
HeaderBatchEvents ==
    {HeaderBatchEvent(kind, paths) :
        kind \in BatchKinds,
        paths \in {<<"/io", "/raise_400">>, <<"/raise_400", "/io">>}}

\* A batch whose records carry the given texts
RecordsEvent(kind, texts) ==
    LET n == Len(texts)
    IN  CASE kind = "sqs" ->
                [Records |-> [i \in 1..n |->
                    [messageId |-> ToString(i), body |-> texts[i],
                     eventSource |-> "aws:sqs"]]]
          [] kind = "sns" ->
                [Records |-> [i \in 1..n |->
                    [messageId |-> ToString(i), Sns |-> [Message |-> texts[i]],
                     eventSource |-> "aws:sns"]]]
          [] kind = "mq" ->
                [eventSource |-> "aws:mq",
                 messages |-> [i \in 1..n |->
                    [messageId |-> ToString(i), data |-> texts[i]]]]

\* Record texts that are not requests: not JSON, a JSON string, and a JSON
\* object that is not an API Gateway event
BadTexts == {[raw |-> "not json"], dumps(PyStr("1")), dumps(EmptyDict)}

\* The text of a record that is the request GET /
GoodText ==
    dumps(init_event_context("/", "GET", dumps(EmptyDict), PyStr("r1")))

\* Batches with one such record, alone, after and before a record that is a
\* request
BadRecordEvents ==
    {RecordsEvent(kind, texts) :
        kind \in BatchKinds,
        texts \in UNION {{<<bad>>, <<GoodText, bad>>, <<bad, GoodText>>} :
                            bad \in BadTexts}}

\* Events that are neither direct invocations nor batches of a known source:
\* without records and source, with a record without source, and with the
\* source of another service, in a record or in the event, well-formed or not
OtherEvents ==
    {[source |-> "aws.events"],
     [Records |-> <<[messageId |-> "1"]>>],
     [Records |-> <<[messageId |-> "1", eventSource |-> "aws:kinesis"]>>],
     [Records |-> <<[messageId |-> "1", eventSource |-> "kinesis"]>>],
     [eventSource |-> "aws:kafka", records |-> <<>>]}

\* The direct invocations
DirectEvents ==
    {DirectEvent(payload) : payload \in TestPayloads \cup DirectOnlyPayloads}
        \cup HeaderEvents

\* The batches of at most MaxBatch records, of every kind and in both orders
\* of ids
BatchEvents ==
    {BatchEvent(kind, payloads, rev) :
        kind \in BatchKinds, rev \in BOOLEAN,
        payloads \in UNION {[1..n -> TestPayloads] : n \in 0..MaxBatch}}
        \cup HeaderBatchEvents \cup BadRecordEvents

\* The registrations of the test-suite: path, method, function, status_code
TestRegistrations ==
    <<<<"/", "GET", "get", None>>,
      <<"/get_only", "GET", "get_only", None>>,
      <<"/raise_400", "GET", "get400", None>>,
      <<"/raise_503", "GET", "get503", None>>,
      <<"/raise_401_with_headers", "GET", "get401headers", None>>,
      <<"/raise_400_with_message", "GET", "get400msg", None>>,
      <<"/raise_400_with_detail", "GET", "get400detail", None>>,
      <<"/raise_500", "GET", "get500", None>>,
      <<"/raise_422", "GET", "get422", None>>,
      <<"/io", "GET", "get_io", None>>,
      <<"/sleep", "GET", "sleep", None>>,
      <<"/created", "GET", "created", None>>,
      <<"/inject_request", "GET", "get_request", None>>,
      <<"/inject_400", "GET", "get_400", None>>,
      <<"/401", "GET", "get_401", None>>,
      <<"/replaced", "GET", "get_replaced", None>>,
      <<"/binary", "POST", "post", None>>,
      <<"/binary_bytearray", "POST", "post_bytearray", None>>,
      <<"/binary_memoryview", "POST", "post_memoryview", None>>>>

RECURSIVE RegisterAll(_, _)
\* The table the decorator leaves after the given registrations
RegisterAll(table, registrations) ==
    IF registrations = <<>> THEN table
    ELSE LET r == Head(registrations)
         IN  RegisterAll(api_route(table, r[1], r[2], r[3], r[4]).routes,
                         Tail(registrations))

TestRoutes == RegisterAll(EmptyDict, TestRegistrations)

-----------------------------------------------------------------------------
(* State machine *)

Idle == [state |-> "idle", handed |-> FALSE, pairs |-> <<>>,
         result |-> None, exception |-> None]

Requests == IF parsed = None THEN <<>>
            ELSE IF parsed.isRequest THEN <<parsed.value>> ELSE parsed.value

Attempts == 1..Len(Requests)

\* The Handler that is not yet constructed
NoHandler ==
    [state |-> "new", exit_stack |-> <<>>, acquired |-> <<>>,
     released |-> <<>>, dels |-> 0]

\* Handler.__init__ has returned: the exit stack holds the backend, whose
\* __aenter__ entered the logger.
Constructed ==
    [NoHandler EXCEPT !.state = "live", !.exit_stack = <<"backend">>,
                      !.acquired = <<"backend">>]

\* What every Handler starts with, apart from its routes
NoInvocation ==
    /\ regError = None
    /\ event = None
    /\ parsed = None
    /\ pc = <<>>
    /\ called = <<>>
    /\ args = <<>>
    /\ cached = <<>>
    /\ response = <<>>
    /\ escaped = <<>>
    /\ log = <<>>
    /\ completed = <<>>
    /\ inv = Idle

\* A Handler on which the routes of the test-suite have been registered
Init ==
    /\ routes = TestRoutes
    /\ registry = {TestRegistrations[k] : k \in 1..Len(TestRegistrations)}
    /\ NoInvocation
    /\ life = Constructed

\* Handler.__call__ up to the first suspension of __acall__: parse_request,
\* and one _handle_request coroutine per request.
Call(ev) ==
    /\ life.state = "live"
    /\ inv.state = "idle"
    /\ LET got == parse_request(ev)
           n == IF got.isRequest THEN 1 ELSE Len(got.value)
       IN  /\ event' = got.event
           /\ parsed' = [isRequest |-> got.isRequest, value |-> got.value]
           /\ pc' = [i \in 1..n |-> "pending"]
           /\ called' = [i \in 1..n |-> "none"]
           /\ args' = [i \in 1..n |-> EmptyDict]
           /\ cached' = [i \in 1..n |-> NoCache]
           /\ response' = [i \in 1..n |-> None]
           /\ escaped' = [i \in 1..n |-> None]
           /\ log' = [i \in 1..n |-> NoEvent]
           /\ completed' = <<>>
           /\ inv' = IF got.raised = None
                     THEN [Idle EXCEPT !.state = "running"]
                     ELSE [Idle EXCEPT !.state = "raised",
                                       !.exception = got.raised]
    /\ UNCHANGED <<life, routes, regError, registry>>

\* An invocation by API Gateway or a function URL
CallDirect(ev) == Call(ev)

\* An invocation by SQS, SNS or MQ
CallBatch(ev) == Call(ev)
CallOther(ev) == Call(ev)

\* The attempt, were it to end without leaving its with-block
Leave_open(i, handled) ==
    /\ pc' = [pc EXCEPT ![i] = IF handled.raised = None THEN "done" ELSE "raised"]
    /\ response' = [response EXCEPT ![i] = handled.response]
    /\ escaped' = [escaped EXCEPT ![i] = handled.raised]
    /\ log' = [log EXCEPT ![i] = handled.event]
    /\ completed' = Append(completed, i)

\* The attempt leaves its with-block: the log scope closes, and the attempt
\* returns its Response or raises.
Leave(i, handled) ==
    /\ pc' = [pc EXCEPT ![i] = IF handled.raised = None THEN "done" ELSE "raised"]
    /\ response' = [response EXCEPT ![i] = handled.response]
    /\ escaped' = [escaped EXCEPT ![i] = handled.raised]
    /\ log' = [log EXCEPT ![i] = [handled.event EXCEPT !.state = "closed"]]
    /\ completed' = Append(completed, i)

\* _handle_request from its start to the await of wait_for: the log scope
\* opens and _prepare_request runs. Tasks start in the order gather made them.
StartAttempt(i) ==
    /\ inv.state = "running"
    /\ pc[i] = "pending"
    /\ \A j \in 1..(i - 1) : pc[j] # "pending"
    /\ \E decoder \in Decoders :
       LET request == Requests[i]
           opened == create_event(request.method, request.path,
                                  Get(request.headers, "x-request-id", None))
           prepared == prepare_request(routes, request, opened, decoder)
       IN  /\ cached' = [cached EXCEPT ![i] = prepared.cached]
           /\ IF prepared.raised = None
              THEN /\ pc' = [pc EXCEPT ![i] = "waiting"]
                   /\ called' = [called EXCEPT ![i] = prepared.func]
                   /\ args' = [args EXCEPT ![i] = prepared.kwargs]
                   /\ response' = [response EXCEPT ![i] = prepared.response]
                   /\ log' = [log EXCEPT ![i] = prepared.event]
                   /\ UNCHANGED <<escaped, completed>>
              ELSE /\ Leave(i, handle_exception(request, prepared.event,
                                                prepared.raised))
                   /\ UNCHANGED <<called, args>>
    /\ UNCHANGED <<life, routes, regError, registry, event, parsed, inv>>

\* The keyword arguments the route function was called with
Kwargs(request) ==
    LET body == Request_json(request) IN IF IsDict(body) THEN body ELSE EmptyDict

\* The route function of the attempt suspends before it ends.
Suspends(i) == RouteFunction(called[i], args[i], log[i]).suspends

\* wait_for returns or raises what the route function ended with. Every task
\* reaches its wait_for before any route function's task runs (the loop's
\* ready queue is first in, first out); route functions that never suspend
\* end in the order of their tasks, the others at any time.
HandlerEnds(i) ==
    /\ inv.state = "running"
    /\ pc[i] = "waiting"
    /\ \A j \in Attempts : pc[j] # "pending"
    /\ Suspends(i) \/ \A j \in 1..(i - 1) : pc[j] = "waiting" => Suspends(j)
    /\ LET request == Requests[i]
           ended == RouteFunction(called[i], args[i], log[i])
           in_flight == IF ended.in_flight = None THEN response[i]
                        ELSE ended.in_flight
       IN  /\ ended.kind # "hang"
           /\ IF ended.kind = "return"
              THEN Leave(i, call_route_function(ended.value, in_flight,
                                                ended.event))
              ELSE Leave(i, handle_exception(request, ended.event, ended.value))
    /\ UNCHANGED <<life, routes, regError, registry, event, parsed, called, args,
                   cached, inv>>

\* Every route function that never suspends has ended: the loop is idle but
\* for the functions awaiting I/O.
OnlySuspendedWait == \A j \in Attempts : pc[j] = "waiting" => Suspends(j)

\* The timeout, were it to cancel every route function in flight
Timeout_cancels_all(i) ==
    /\ inv.state = "running"
    /\ pc[i] = "waiting"
    /\ \A j \in Attempts : pc[j] # "pending"
    /\ OnlySuspendedWait
    /\ RouteFunction(called[i], args[i], log[i]).kind = "hang"
    /\ LET handled(j) == handle_exception(Requests[j], log[j], TimeoutError)
           cancelled == SelectSeq([j \in Attempts |-> j],
                                  LAMBDA j : pc[j] = "waiting")
       IN  /\ pc' = [j \in Attempts |->
                       IF pc[j] # "waiting" THEN pc[j]
                       ELSE IF handled(j).raised = None THEN "done"
                       ELSE "raised"]
           /\ response' = [j \in Attempts |->
                             IF pc[j] # "waiting" THEN response[j]
                             ELSE handled(j).response]
           /\ escaped' = [j \in Attempts |->
                            IF pc[j] # "waiting" THEN escaped[j]
                            ELSE handled(j).raised]
           /\ log' = [j \in Attempts |->
                        IF pc[j] # "waiting" THEN log[j]
                        ELSE [handled(j).event EXCEPT !.state = "closed"]]
           /\ completed' = completed \o cancelled
    /\ UNCHANGED <<life, routes, regError, registry, event, parsed, called, args,
                   cached, inv>>

\* wait_for, were it given no timeout: it never expires
Timeout_never(i) ==
    /\ inv.state = "running"
    /\ pc[i] = "waiting"
    /\ FALSE
    /\ UNCHANGED vars

\* wait_for(func, FUNCTION_TIMEOUT) expires: the route function is cancelled
\* and TimeoutError is raised in _call_route_function. Time passes only once
\* the loop has nothing ready to run.
Timeout(i) ==
    /\ inv.state = "running"
    /\ pc[i] = "waiting"
    /\ \A j \in Attempts : pc[j] # "pending"
    /\ OnlySuspendedWait
    /\ RouteFunction(called[i], args[i], log[i]).kind = "hang"
    /\ Leave(i, handle_exception(Requests[i], log[i], TimeoutError))
    /\ UNCHANGED <<life, routes, regError, registry, event, parsed, called, args,
                   cached, inv>>

\* __acall__ resumes with every attempt returned and serializes.
Return ==
    /\ inv.state = "running"
    /\ \A i \in Attempts : pc[i] = "done"
    /\ IF parsed.isRequest
       THEN inv' = [inv EXCEPT !.state = "returned",
                       !.result = serialize_response(response[1], parsed.value)]
       ELSE LET resp_req == zip(gather(response, Len(parsed.value)), parsed.value)
            IN  inv' = [inv EXCEPT !.state = "returned", !.handed = TRUE,
                            !.pairs = resp_req,
                            !.result = serialize_responses(resp_req)]
    /\ UNCHANGED <<life, routes, regError, registry, event, parsed, pc, called,
                   args, cached,
                   response, escaped, log, completed>>

\* The first attempt that raised
FirstRaised ==
    LET raisedAt == {k \in 1..Len(completed) : pc[completed[k]] = "raised"}
    IN  completed[CHOOSE k \in raisedAt : \A l \in raisedAt : k <= l]

\* __acall__ resumes with the first exception an attempt raised (gather
\* without return_exceptions), and run_until_complete raises it. The tasks
\* that were ready before it have run; those awaiting I/O stay suspended.
Raise ==
    /\ inv.state = "running"
    /\ \E i \in Attempts : pc[i] = "raised"
    /\ OnlySuspendedWait
    /\ inv' = [inv EXCEPT !.state = "raised", !.exception = escaped[FirstRaised]]
    /\ UNCHANGED <<life, routes, regError, registry, event, parsed, pc, called,
                   args, cached,
                   response, escaped, log, completed>>

Next ==
    \/ inv.state = "idle" /\ \E ev \in DirectEvents : CallDirect(ev)
    \/ inv.state = "idle" /\ \E ev \in BatchEvents : CallBatch(ev)
    \/ inv.state = "idle" /\ \E ev \in OtherEvents : CallOther(ev)
    \/ \E i \in Attempts : StartAttempt(i)
    \/ \E i \in Attempts : HandlerEnds(i)
    \/ \E i \in Attempts : Timeout(i)
    \/ Return
    \/ Raise

Spec == Init /\ [][Next]_vars

\* The steps of the event loop: run_until_complete runs every callback that is
\* ready and every timer that is due until __acall__ is done.
RunLoop ==
    \/ \E i \in Attempts : StartAttempt(i)
    \/ \E i \in Attempts : HandlerEnds(i)
    \/ \E i \in Attempts : Timeout(i)
    \/ Return
    \/ Raise

\* The payloads whose attempts end in each way: at once (404), by returning,
\* by raising, after I/O, and by the timeout alone
FairPayloads ==
    {Payload("/not_exists", "GET", dumps(EmptyDict)),
     Payload("/", "GET", dumps(EmptyDict)),
     Payload("/raise_500", "GET", dumps(EmptyDict)),
     Payload("/io", "GET", dumps(EmptyDict)),
     Payload("/sleep", "GET", dumps(EmptyDict))}

FairDirectEvents == {DirectEvent(payload) : payload \in FairPayloads}

FairBatchEvents ==
    {BatchEvent(kind, payloads, rev) :
        kind \in BatchKinds, rev \in BOOLEAN,
        payloads \in UNION {[1..n -> FairPayloads] : n \in 0..MaxBatch}}

NextFair ==
    \/ inv.state = "idle" /\ \E ev \in FairDirectEvents : CallDirect(ev)
    \/ inv.state = "idle" /\ \E ev \in FairBatchEvents : CallBatch(ev)
    \/ RunLoop

\* run_until_complete does not return before __acall__ is done: the loop
\* keeps taking steps while one is possible.
SpecFair == Init /\ [][NextFair]_vars /\ WF_vars(RunLoop)

-----------------------------------------------------------------------------
(* Registration: routes are registered on a new Handler, which then serves   *)
(* direct invocations.                                                       *)

RegPaths == {"/", "/get_only"}
RegFuncs == {"get", "put", "get_only"}
RegStatus == {None, PyInt(202), PyInt(204)}

RoutePayloads ==
    {Payload(path, method, dumps(EmptyDict)) :
        path \in RegPaths \cup {"/not_exists"}, method \in Methods}

RouteEvents == {DirectEvent(payload) : payload \in RoutePayloads}

\* @handler.get(path, status_code=...) and its siblings, applied to func
Register(path, method, func, status_code) ==
    /\ inv.state = "idle"
    /\ LET done == api_route(routes, path, method, func, status_code)
       IN  /\ routes' = done.routes
           /\ regError' = done.raised
           /\ registry' = IF done.raised = None
                          THEN registry \cup {<<path, method, func, status_code>>}
                          ELSE registry
    /\ UNCHANGED <<event, parsed, pc, called, args, cached, response, escaped,
                   log,
                   completed, inv, life>>

InitRoutes ==
    /\ routes = EmptyDict
    /\ registry = {}
    /\ NoInvocation
    /\ life = Constructed

NextRoutes ==
    \/ \E path \in RegPaths, method \in Methods, func \in RegFuncs,
          status_code \in RegStatus : Register(path, method, func, status_code)
    \/ inv.state = "idle" /\ \E ev \in RouteEvents : CallDirect(ev)
    \/ \E i \in Attempts : StartAttempt(i)
    \/ \E i \in Attempts : HandlerEnds(i)
    \/ Return

SpecRoutes == InitRoutes /\ [][NextRoutes]_vars

-----------------------------------------------------------------------------
(* Life of the Handler: construction, the contexts entered through it, one   *)
(* invocation and __del__.                                                   *)

\* The async context managers the program enters through the Handler
Contexts == {"client", "pool"}

\* One invocation that returns, one that raises and a batch
LifeEvents ==
    {DirectEvent(Payload("/", "GET", dumps(EmptyDict))),
     DirectEvent(Payload("/raise_500", "GET", dumps(EmptyDict))),
     BatchEvent("sns", <<Payload("/", "GET", dumps(EmptyDict)),
                         Payload("/raise_500", "GET", dumps(EmptyDict))>>,
                FALSE)}

\* Handler(): the loop and the exit stack are made, then the backend is
\* entered. When get_backend or the __aenter__ of the backend raises, __init__
\* raises and the exit stack is left empty.
Construct(entered) ==
    /\ life.state = "new"
    /\ life' = IF entered THEN Constructed
               ELSE [NoHandler EXCEPT !.state = "failed"]
    /\ UNCHANGED <<routes, regError, registry, event, parsed, pc, called, args,
                   cached,
                   response, escaped, log, completed, inv>>

\* The decorators of the test-suite, applied to the new Handler
RegisterTests ==
    /\ life.state = "live"
    /\ inv.state = "idle"
    /\ routes = EmptyDict
    /\ routes' = TestRoutes
    /\ registry' = {TestRegistrations[k] : k \in 1..Len(TestRegistrations)}
    /\ UNCHANGED <<regError, event, parsed, pc, called, args, cached, response,
                   escaped,
                   log, completed, inv, life>>

\* Handler.enter_async_context(context): AsyncExitStack.enter_async_context
\* awaits the __aenter__ of the context and pushes its __aexit__ only when
\* that returned.
enter_async_context(context, entered) ==
    /\ life.state = "live"
    /\ inv.state # "running"
    /\ \A k \in DOMAIN life.acquired : life.acquired[k] # context
    /\ life' = IF entered
               THEN [life EXCEPT !.exit_stack = Append(@, context),
                                 !.acquired = Append(@, context)]
               ELSE life
    /\ UNCHANGED <<routes, regError, registry, event, parsed, pc, called, args,
                   cached,
                   response, escaped, log, completed, inv>>

\* AsyncExitStack.__aexit__, were it to exit the contexts first in, first out
aexit_fifo(exit_stack) == exit_stack

\* AsyncExitStack.__aexit__: the contexts it exits, in order: last in, first
\* out, the next ones also when the __aexit__ of one raises.
aexit(exit_stack) ==
    [k \in 1..Len(exit_stack) |-> exit_stack[Len(exit_stack) + 1 - k]]

\* Handler.__del__, run when the object is collected, also after __init__
\* raised, and when the program calls it: the exit stack exits what it holds
\* and is left empty.
Del ==
    /\ life.state \in {"live", "failed", "deleted"}
    /\ inv.state # "running"
    /\ life.dels < MaxDel
    /\ life' = [life EXCEPT !.state = "deleted",
                            !.released = @ \o aexit(life.exit_stack),
                            !.exit_stack = <<>>,
                            !.dels = @ + 1]
    /\ UNCHANGED <<routes, regError, registry, event, parsed, pc, called, args,
                   cached,
                   response, escaped, log, completed, inv>>

InitLife ==
    /\ routes = EmptyDict
    /\ registry = {}
    /\ NoInvocation
    /\ life = NoHandler

NextLife ==
    \/ \E entered \in BOOLEAN : Construct(entered)
    \/ RegisterTests
    \/ \E context \in Contexts, entered \in BOOLEAN :
          enter_async_context(context, entered)
    \/ \E ev \in LifeEvents : Call(ev)
    \/ \E i \in Attempts : StartAttempt(i)
    \/ \E i \in Attempts : HandlerEnds(i)
    \/ Return
    \/ Raise
    \/ Del

SpecLife == InitLife /\ [][NextLife]_vars

-----------------------------------------------------------------------------
(* A Response on its own: a program makes Responses and assigns their status *)
(* and content in any order, inside one log scope.                           *)

ResponseContents == {None, PyStr(""), PyStr("a"), [detail |-> PyStr("a")]}
ResponseStatuses == {200, 201, 204, 400, 404, 500, 503}

\* The statuses Responses are made with; the others are assigned later
MadeStatuses == {200, 201, 204, 400}
ResponseHeaders == {None, "test" :> PyStr("test")}

\* _MEDIA_TYPE of Response and of JSONResponse
MediaTypes == {"", "application/json"}

\* response = Response(content, status_code, headers) or JSONResponse(...)
NewResponse(content, status_code, headers, MEDIA_TYPE) ==
    /\ LET made == Response(content, status_code, headers, "", MEDIA_TYPE, log[1])
       IN  /\ response' = <<made.response>>
           /\ log' = <<made.event>>
    /\ UNCHANGED <<routes, regError, registry, event, parsed, pc, called, args,
                   cached, escaped, completed, inv, life>>

\* response.status_code = value
SetStatus(value) ==
    /\ response # <<>>
    /\ LET set == status_code_setter(response[1], log[1], value)
       IN  /\ response' = <<set.response>>
           /\ log' = <<set.event>>
    /\ UNCHANGED <<routes, regError, registry, event, parsed, pc, called, args,
                   cached, escaped, completed, inv, life>>

\* response.content = value
SetContent(value) ==
    /\ response # <<>>
    /\ LET set == content_setter(response[1], log[1], value)
       IN  /\ response' = <<set.response>>
           /\ log' = <<set.event>>
    /\ UNCHANGED <<routes, regError, registry, event, parsed, pc, called, args,
                   cached, escaped, completed, inv, life>>

InitResponse ==
    /\ routes = EmptyDict
    /\ registry = {}
    /\ regError = None
    /\ event = None
    /\ parsed = None
    /\ pc = <<>>
    /\ called = <<>>
    /\ args = <<>>
    /\ cached = <<>>
    /\ response = <<>>
    /\ escaped = <<>>
    /\ log = <<create_event("GET", "/", PyStr("r0"))>>
    /\ completed = <<>>
    /\ inv = Idle
    /\ life = Constructed

NextResponse ==
    \/ \E content \in ResponseContents, status_code \in MadeStatuses,
          headers \in ResponseHeaders, MEDIA_TYPE \in MediaTypes :
            NewResponse(content, status_code, headers, MEDIA_TYPE)
    \/ \E value \in ResponseStatuses : SetStatus(value)
    \/ \E value \in ResponseContents : SetContent(value)

SpecResponse == InitResponse /\ [][NextResponse]_vars

-----------------------------------------------------------------------------
(* Vocabulary of the properties *)

\* The trigger of the invocation, read from the raw event
EventKind ==
    IF event = None THEN "none"
    ELSE IF "requestContext" \in DOMAIN event THEN "direct"
    ELSE IF "eventSource" \in DOMAIN event THEN SourceName(event.eventSource)
    ELSE IF "Records" \notin DOMAIN event THEN "unknown"
    ELSE IF Len(event.Records) = 0 THEN "empty"
    ELSE IF "eventSource" \notin DOMAIN event.Records[1] THEN "unknown"
    ELSE SourceName(event.Records[1].eventSource)

IsBatch == EventKind \in {"sqs", "sns", "mq", "empty"}

\* The records of the raw batch event, in payload order
Records ==
    IF EventKind = "mq" THEN event.messages
    ELSE IF EventKind \in {"sqs", "sns", "empty"} THEN event.Records
    ELSE <<>>

Ended == inv.state \in {"returned", "raised"}

Terminal(i) == pc[i] \in {"done", "raised"}

\* The status the test-suite expects for a request handled on its own
ExpectedStatus(request) ==
    CASE request.path = "/not_exists" -> 404
      [] request.path \in BinaryPaths -> 200
      [] request.path = "/created" -> 201
      [] request.path \in InjectPaths ->
            LET body == Request_json(request)
                given == IF request.path = "/inject_request"
                         THEN {"request"} ELSE {"response"}
            IN  IF IsDict(body) /\ DOMAIN body \ given # {} THEN 422
                ELSE IF request.path = "/inject_request" THEN 204
                ELSE IF request.path = "/inject_400" THEN 400
                ELSE IF request.path = "/401" THEN 401
                ELSE 201
      [] request.method # "GET" -> 405
      [] request.path = "/" -> 204
      [] request.path = "/get_only" -> 200
      [] request.path = "/raise_400" -> 400
      [] request.path = "/raise_503" -> 503
      [] request.path = "/raise_401_with_headers" -> 401
      [] request.path = "/raise_400_with_message" -> 400
      [] request.path = "/raise_400_with_detail" -> 400
      [] request.path = "/raise_500" -> 500
      [] request.path = "/sleep" -> 500
      [] request.path = "/io" -> 200
      [] request.path = "/raise_422" ->
            IF Request_json(request) = [value |-> PyInt(1)] THEN 200 ELSE 422

\* The request ends in an error of a known kind: 404, 405, an explicit
\* HTTPException of the route function, or a validation error.
KnownError(request) == ExpectedStatus(request) \in {400, 404, 405, 422, 503}

\* The attempt called no route function because decoding the body of its
\* request raised UnicodeDecodeError.
DecodeFault(i) == called[i] = "none" /\ json_raises(Requests[i], "json")

\* The attempt raised an exception that is neither an HTTPException nor a
\* ValidationError, or its timeout expired.
UnhandledFault(i) ==
    /\ Terminal(i)
    /\ called[i] \in {"get500", "sleep"} \/ DecodeFault(i)

\* The exception an unhandled fault of the attempt raises
FaultOf(i) ==
    IF called[i] = "sleep" THEN TimeoutError
    ELSE IF called[i] = "none" THEN UnicodeDecodeError
    ELSE ValueError

-----------------------------------------------------------------------------
(* Properties *)

\* C1: the pairs handed to serialize_responses are as many as the requests
\* parsed, and the i-th pair is (the Response attempt i returned, request i),
\* whatever the order in which the attempts completed; the Response carries
\* the request id of its own request.
C1_PairsInInputOrder ==
    inv.handed =>
        /\ Len(inv.pairs) = Len(parsed.value)
        /\ \A i \in 1..Len(parsed.value) :
              /\ inv.pairs[i] = <<response[i], parsed.value[i]>>
              /\ inv.pairs[i][1].headers["x-request-id"]
                    = parsed.value[i].headers["x-request-id"]
              /\ inv.pairs[i][1].status_code = ExpectedStatus(parsed.value[i])

\* A batch was serialized whose attempts completed in another order than the
\* input order, with different statuses.
C1_Witness ==
    /\ inv.handed
    /\ Len(inv.pairs) >= 2
    /\ completed[1] # 1
    /\ inv.pairs[1][1].status_code # inv.pairs[2][1].status_code

\* The message ids of the records whose Response has a status >= 400
FailedIds ==
    {Records[i].messageId : i \in {j \in Attempts : response[j].status_code >= 400}}

\* C2: an SQS batch with at least one status >= 400 returns batchItemFailures
\* naming every record with status >= 400, no other record, each once.
C2_FailuresAreExactlyTheFailed ==
    (/\ inv.state = "returned"
     /\ EventKind = "sqs"
     /\ \E i \in Attempts : response[i].status_code >= 400) =>
        /\ DOMAIN inv.result = {"batchItemFailures"}
        /\ {inv.result.batchItemFailures[k].itemIdentifier :
                k \in 1..Len(inv.result.batchItemFailures)} = FailedIds
        /\ Len(inv.result.batchItemFailures) = Cardinality(FailedIds)

\* An SQS batch returned with one success and one absorbed unhandled
\* exception, and reports one failure.
C2_Witness ==
    /\ inv.state = "returned"
    /\ EventKind = "sqs"
    /\ Len(Requests) = 2
    /\ {response[i].status_code : i \in Attempts} = {204, 500}
    /\ Len(inv.result.batchItemFailures) = 1

\* C3: an SQS batch whose records are all dispatched and all end with a status
\* < 400, and a batch with no record, return None (never an empty list of
\* failures).
C3_AllSucceededReturnsNone ==
    (/\ Ended
     /\ EventKind \in {"sqs", "empty"}
     /\ Len(Requests) = Len(Records)
     /\ \A i \in Attempts : Terminal(i) /\ response[i] # None
                            /\ response[i].status_code < 400) =>
        /\ inv.state = "returned"
        /\ inv.result = None

\* An SQS batch of two or more records, all succeeded, has returned.
C3_Witness ==
    /\ inv.state = "returned"
    /\ EventKind = "sqs"
    /\ Len(Requests) >= 2
    /\ \A i \in Attempts : response[i].status_code < 400

\* C4: every request made from a batch record has raises_exceptions = FALSE
\* and every request made from a direct invocation has it TRUE.
C4_BatchRequestsDoNotRaise ==
    \A i \in Attempts :
        Requests[i].raises_exceptions = (EventKind = "direct")

\* C5: when a batch invocation is over, every item that has a faulty sibling
\* has ended, with the status it has when handled on its own.
C5_SiblingsUnaffected ==
    (Ended /\ IsBatch) =>
        \A i \in Attempts :
            (\E j \in Attempts \ {i} :
                Terminal(j) /\ ExpectedStatus(Requests[j]) >= 400) =>
                /\ Terminal(i)
                /\ pc[i] = "done" => response[i].status_code
                                        = ExpectedStatus(Requests[i])

\* C6: an SNS or MQ batch invocation returns None, whatever its items do.
C6_NoAckForSnsAndMq ==
    (Ended /\ EventKind \in {"sns", "mq"}) =>
        /\ inv.state = "returned"
        /\ inv.result = None

\* C7: an unhandled fault of a request with raises_exceptions leaves its
\* status in the log scope and the same exception leaves the attempt and,
\* first of its invocation, the invocation; without raises_exceptions no
\* exception leaves the attempt, which returns a Response with that status.
C7_UnhandledFaultRaisedOrAbsorbed ==
    /\ \A i \in Attempts :
          UnhandledFault(i) =>
              IF Requests[i].raises_exceptions
              THEN /\ pc[i] = "raised"
                   /\ escaped[i] = FaultOf(i)
                   /\ response[i] = None
                   /\ log[i].status_code = 500
                   /\ log[i].state = "closed"
                   /\ Ended => inv.state = "raised"
                   /\ (Ended /\ FirstRaised = i) => inv.exception = FaultOf(i)
              ELSE /\ pc[i] = "done"
                   /\ escaped[i] = None
                   /\ response[i].status_code = 500
                   /\ log[i].status_code = 500
    /\ (inv.state = "raised" /\ Requests # <<>>) =>
          \E i \in Attempts : UnhandledFault(i) /\ inv.exception = escaped[i]

\* A direct invocation raised the ValueError of its route function, with
\* status 500 in the log scope.
C7_Witness ==
    /\ EventKind = "direct"
    /\ inv.state = "raised"
    /\ inv.exception = ValueError
    /\ log[1].status_code = 500
    /\ Requests[1].raises_exceptions

\* C8: 404, 405, explicit HTTP errors and validation errors never leave the
\* attempt, for both values of raises_exceptions: the attempt returns a
\* Response with that status, and a direct invocation returns its envelope.
C8_KnownErrorsNeverEscape ==
    \A i \in Attempts :
        (Terminal(i) /\ KnownError(Requests[i])) =>
            /\ pc[i] = "done"
            /\ escaped[i] = None
            /\ response[i].status_code = ExpectedStatus(Requests[i])
            /\ (EventKind = "direct" /\ Ended) =>
                  /\ inv.state = "returned"
                  /\ inv.result.statusCode
                        = ToString(ExpectedStatus(Requests[i]))
                  /\ inv.result.body # None

\* A direct invocation (raises_exceptions = TRUE) returned the envelope of a
\* validation error.
C8_Witness ==
    /\ EventKind = "direct"
    /\ Requests[1].raises_exceptions
    /\ inv.state = "returned"
    /\ inv.result.statusCode = "422"

\* The pair has a route: a registration of it succeeded.
Registered(path, method) ==
    \E r \in registry : r[1] = path /\ r[2] = method

\* The function the first successful registration of the pair gave
RegisteredFunc(path, method) ==
    (CHOOSE r \in registry : r[1] = path /\ r[2] = method)[3]

\* C9: after any registrations, a request for a registered pair invokes the
\* function registered for it; a path with no route under any method yields
\* 404; a path with routes under other methods only yields 405.
C9_LookupFindsTheRegisteredRoute ==
    \A i \in Attempts :
        pc[i] # "pending" =>
            LET path == Requests[i].path
                method == Requests[i].method
            IN  IF Registered(path, method)
                THEN /\ called[i] = RegisteredFunc(path, method)
                     /\ Terminal(i) => response[i].status_code \notin {404, 405}
                ELSE /\ Terminal(i)
                     /\ called[i] = "none"
                     /\ response[i].status_code
                          = IF \E other \in Methods : Registered(path, other)
                            THEN 405 ELSE 404

\* Two paths with different sets of methods are registered, and a request for
\* a method that only the other path has was answered 405.
C9_Witness ==
    /\ Registered("/", "GET") /\ Registered("/", "PUT")
    /\ Registered("/get_only", "GET") /\ ~Registered("/get_only", "PUT")
    /\ inv.state = "returned"
    /\ Requests[1].path = "/get_only" /\ Requests[1].method = "PUT"
    /\ inv.result.statusCode = "405"

\* The table holds the routes of the successful registrations, and no other.
RoutesAreTheRegistry ==
    /\ \A r \in registry :
          /\ r[1] \in DOMAIN routes
          /\ r[2] \in DOMAIN routes[r[1]]
          /\ routes[r[1]][r[2]] = APIRoute(r[3], r[4])
    /\ \A path \in DOMAIN routes : \A method \in DOMAIN routes[path] :
          \E r \in registry : r[1] = path /\ r[2] = method

\* A registration of a pair that already has a route raises and changes
\* nothing.
DuplicateFails ==
    \A path \in RegPaths, method \in Methods, func \in RegFuncs,
       status_code \in RegStatus :
        (Register(path, method, func, status_code) /\ Registered(path, method)) =>
            /\ regError' # None
            /\ routes' = routes

\* C10: registering a pair that is already registered raises and leaves the
\* route table as it was: the pair keeps the function and status of its first
\* registration, and no route is added, removed or changed.
C10_DuplicateRegistrationFails ==
    []RoutesAreTheRegistry /\ [][DuplicateFails]_vars

\* A registration failed on a table with two routes, which it left in place.
C10_Witness ==
    /\ regError # None
    /\ Cardinality(registry) = 2
    /\ RoutesAreTheRegistry

\* The status a Response ends with when it is made with the given status and
\* no content, and the given content is then set on it
StatusAfter(status_code, content) ==
    LET made == IF status_code = 200 THEN 204 ELSE status_code
    IN  IF content # None /\ made = 204 THEN 200 ELSE made

\* C11: a Response made with status 200 and no content stores 204, and
\* setting content that is not None on a 204 Response makes it 200: on a route
\* whose status is 200, the Response is 204 while the route function runs,
\* 204 when it returned None and 200 when it returned a value; any other
\* route status is kept. The log scope and the envelope carry that status.
C11_StatusFollowsContent ==
    \A i \in Attempts :
        called[i] # "none" =>
            LET route == routes[Requests[i].path][Requests[i].method]
                ended == RouteFunction(called[i], args[i], log[i])
            IN  /\ pc[i] = "waiting" =>
                      /\ response[i].content = None
                      /\ response[i].status_code
                            = IF route.status_code = 200 THEN 204
                              ELSE route.status_code
                      /\ log[i].status_code = response[i].status_code
                /\ (pc[i] = "done" /\ ended.kind = "return"
                     /\ ~IsResponse(ended.value)) =>
                      /\ response[i].content = ended.value
                      /\ response[i].status_code
                            = StatusAfter(route.status_code, ended.value)
                      /\ route.status_code = 200 =>
                            response[i].status_code
                                = IF ended.value = None THEN 204 ELSE 200
                      /\ log[i].status_code = response[i].status_code
                      /\ (inv.state = "returned" /\ parsed.isRequest) =>
                            inv.result.statusCode
                                = ToString(response[i].status_code)

\* A route registered without a status returned a value: its Response was
\* 204 while the function ran and the envelope says 200.
C11_Witness ==
    /\ inv.state = "returned"
    /\ parsed.isRequest
    /\ called[1] = "put"
    /\ routes[Requests[1].path][Requests[1].method].status_code = 200
    /\ response[1].content = PyStr("put")
    /\ inv.result.statusCode = "200"

\* The route function of the attempt raised an HTTPException.
RaisedHTTP(i) ==
    /\ Terminal(i)
    /\ called[i] # "none"
    /\ LET ended == RouteFunction(called[i], args[i], log[i])
       IN  ended.kind = "raise" /\ ended.value.type = "HTTPException"

\* The HTTPException the route function of the attempt raised
HTTPErrorOf(i) == RouteFunction(called[i], args[i], log[i]).value

\* The body sent to the caller for an error with the given status and detail
ErrorBody(status_code, detail) ==
    dumps([detail |-> IF detail = None
                      THEN PyStr(get_status_message(status_code))
                      ELSE detail])

\* C12: a direct invocation whose route function raises an HTTPException of
\* status S >= 400 returns an envelope whose statusCode is S and whose body is
\* {"detail": D} when the exception has a detail D and {"detail": the
\* standard message of S} when it has none.
C12_HttpErrorEnvelope ==
    \A i \in Attempts :
        (EventKind = "direct" /\ RaisedHTTP(i)
         /\ HTTPErrorOf(i).status_code >= 400) =>
            /\ pc[i] = "done"
            /\ Ended =>
                  /\ inv.state = "returned"
                  /\ inv.result.statusCode
                        = ToString(HTTPErrorOf(i).status_code)
                  /\ inv.result.body
                        = ErrorBody(HTTPErrorOf(i).status_code,
                                    HTTPErrorOf(i).detail)

\* A direct invocation returned the standard message of an HTTPException
\* raised without detail.
C12_Witness ==
    /\ EventKind = "direct"
    /\ inv.state = "returned"
    /\ called[1] = "get400"
    /\ inv.result.statusCode = "400"
    /\ loads(inv.result.body) = [detail |-> PyStr("Bad Request")]

\* What the caller is sent for the attempt: the status and the rendered body
Caller(i) ==
    [status_code |-> response[i].status_code,
     body |-> Response_body(response[i]).body]

\* C13: the internal detail of an HTTPException is not sent to the caller.
\* What the caller is sent is determined by the status and the detail: any
\* two attempts whose exceptions agree on them are answered the same, and a
\* direct invocation returns the envelope made of them alone; the log scope
\* records the internal detail when one is given, the detail otherwise.
C13_InternalDetailIsNotReturned ==
    /\ \A i \in Attempts :
          RaisedHTTP(i) =>
              LET e == HTTPErrorOf(i)
              IN  /\ Caller(i) = [status_code |-> e.status_code,
                                  body |-> ErrorBody(e.status_code, e.detail)]
                  /\ log[i].error_detail
                        = IF e.error_detail # None THEN e.error_detail
                          ELSE e.detail
                  /\ (EventKind = "direct" /\ Ended) =>
                        inv.result
                          = [body |-> ErrorBody(e.status_code, e.detail),
                             statusCode |-> ToString(e.status_code),
                             headers |->
                               [k \in {"x-request-id", "content-length",
                                       "content-type"} |->
                                  CASE k = "x-request-id" ->
                                          Requests[i].headers["x-request-id"]
                                    [] k = "content-length" ->
                                          [len |-> ErrorBody(e.status_code,
                                                             e.detail)]
                                    [] k = "content-type" ->
                                          "application/json"],
                             isBase64Encoded |-> FALSE]
    /\ \A i, j \in Attempts :
          (/\ RaisedHTTP(i) /\ RaisedHTTP(j)
           /\ HTTPErrorOf(i).status_code = HTTPErrorOf(j).status_code
           /\ HTTPErrorOf(i).detail = HTTPErrorOf(j).detail) =>
              Caller(i) = Caller(j)

\* Two items of a batch raised HTTPExceptions with the same status and detail,
\* one of them with an internal detail: they are answered the same and logged
\* differently.
C13_Witness ==
    /\ inv.state = "returned"
    /\ Len(Requests) = 2
    /\ called[1] = "get400msg" /\ called[2] = "get400detail"
    /\ Caller(1) = Caller(2)
    /\ log[1].error_detail = PyStr("Custom Error Message")
    /\ log[2].error_detail = PyStr("detail")

\* The arguments of the request do not pass the validation of its route.
Invalid(i) ==
    /\ Requests[i].path \in DOMAIN routes
    /\ Requests[i].method \in DOMAIN routes[Requests[i].path]
    /\ validate_arguments(routes[Requests[i].path][Requests[i].method].func,
                          Kwargs(Requests[i])) # None

\* The field errors of the request
ErrorsOf(i) ==
    validate_arguments(routes[Requests[i].path][Requests[i].method].func,
                       Kwargs(Requests[i]))

\* C14: a validation error ends the attempt with a Response of status 422
\* whose body is {"detail": the field errors}; the log scope records status
\* 422 and the same field errors; nothing is raised, whether the request
\* raises exceptions or not.
C14_ValidationErrorIs422 ==
    \A i \in Attempts :
        (Terminal(i) /\ Invalid(i)) =>
            /\ pc[i] = "done"
            /\ escaped[i] = None
            /\ response[i].status_code = 422
            /\ Response_body(response[i]).body = dumps([detail |-> ErrorsOf(i)])
            /\ log[i].status_code = 422
            /\ log[i].error_detail = ErrorsOf(i)
            /\ inv.state = "raised" => inv.exception.type # "ValidationError"

\* An SNS batch, whose requests raise exceptions, returned with an invalid
\* item answered 422.
C14_Witness ==
    /\ inv.state = "returned"
    /\ EventKind = "sns"
    /\ \E i \in Attempts :
          /\ Invalid(i)
          /\ Requests[i].raises_exceptions
          /\ response[i].status_code = 422
          /\ log[i].error_detail = PyStr("type_error.integer")

\* C15: a route function that never ends is ended by the timeout of wait_for
\* and handled as an unhandled exception (status 500 in the log scope), and
\* every invocation that has started returns or raises, whatever its route
\* functions wait for.
C15_InvocationEnds ==
    /\ [](\A i \in Attempts :
            (Terminal(i) /\ called[i] = "sleep") =>
                /\ log[i].status_code = 500
                /\ IF Requests[i].raises_exceptions
                   THEN escaped[i] = TimeoutError
                   ELSE response[i].status_code = 500)
    /\ (inv.state = "running") ~> Ended

\* A batch whose two route functions never end has returned.
C15_Witness ==
    /\ inv.state = "returned"
    /\ Len(Requests) = 2
    /\ \A i \in Attempts : called[i] = "sleep" /\ response[i].status_code = 500

\* The step is the expiry of a timeout and changes no other attempt.
TimeoutIsLocal ==
    \A i \in Attempts :
        Timeout(i) =>
            \A j \in Attempts \ {i} :
                /\ pc'[j] = pc[j]
                /\ response'[j] = response[j]
                /\ escaped'[j] = escaped[j]
                /\ log'[j] = log[j]

\* Every attempt that ended without a timeout of its own ended with the
\* result of its own request.
OwnResults ==
    \A j \in Attempts :
        (Terminal(j) /\ called[j] # "sleep") =>
            /\ pc[j] = "done" =>
                  response[j].status_code = ExpectedStatus(Requests[j])
            /\ pc[j] = "raised" =>
                  escaped[j] = ValueError /\ called[j] = "get500"

C17_LoggedStatusIsSerializedStatus ==
    /\ \A i \in Attempts :
          pc[i] = "done" =>
              /\ log[i].state = "closed"
              /\ log[i].status_code = response[i].status_code
    /\ inv.handed =>
          \A i \in 1..Len(inv.pairs) :
              log[i].status_code = inv.pairs[i][1].status_code
    /\ (EventKind = "direct" /\ inv.state = "returned") =>
          inv.result.statusCode = ToString(log[1].status_code)

\* A batch was serialized whose second item, answered 201 with a Response
\* its route function made, completed before the first, answered 200.
C17_Witness ==
    /\ inv.handed
    /\ Len(inv.pairs) = 2
    /\ called[1] = "get_io" /\ called[2] = "created"
    /\ completed = <<2, 1>>
    /\ log[1].status_code = 200
    /\ log[2].status_code = 201

\* C18: in a direct invocation whose event carries the base64 text of the
\* bytes B with isBase64Encoded set, the body of the request, as parsed and as
\* passed to the route function, is B; a Response whose rendered body is
\* bytes is returned with isBase64Encoded set and a body whose base64
\* decoding is those bytes, so that a route function answering with the body
\* of its request returns B.
C18_BinaryRoundTrip ==
    /\ (EventKind = "direct" /\ event.isBase64Encoded) =>
          \A payload \in BinaryPayloads :
              (event = DirectEvent(payload) /\ parsed # None) =>
                  /\ Request_body(Requests[1]) = payload.body
                  /\ pc[1] = "waiting" =>
                        Request_body(args[1]["request"]) = payload.body
                  /\ inv.state = "returned" =>
                        b64decode(encode(inv.result.body)) = payload.body
    /\ (EventKind = "direct" /\ inv.state = "returned") =>
          LET rendered == Response_body(response[1]).body
          IN  (rendered # None /\ IsBytes(rendered)) =>
                  /\ inv.result.isBase64Encoded = TRUE
                  /\ b64decode(encode(inv.result.body)).bytes = rendered.bytes

\* A direct invocation returned the two bytes of its request, one of them no
\* UTF-8, as a padded base64 text.
C18_Witness ==
    /\ EventKind = "direct"
    /\ inv.state = "returned"
    /\ called[1] = "post_memoryview"
    /\ event.isBase64Encoded
    /\ Request_body(Requests[1]) = bytes(<<116, 255>>)
    /\ inv.result.isBase64Encoded
    /\ inv.result.body = [b64 |-> <<29, 15, 60, 64>>]

\* The rendered body is a str.
IsText(body) == "str" \in DOMAIN body \/ "json" \in DOMAIN body

\* The rendered body is a bytes, a bytearray or a memoryview.
IsBinary(body) ==
    /\ body # None
    /\ "type" \in DOMAIN body
    /\ body.type \in {"bytes", "bytearray", "memoryview"}

\* C19: the envelope a direct invocation returns has isBase64Encoded set
\* exactly when the rendered body of the Response is a bytes, a bytearray or
\* a memoryview, and its body is then the base64 text of those bytes; a str
\* body and an absent body are returned as they are; statusCode is the status
\* code of the Response in decimal.
C19_EnvelopeOfDirectInvocation ==
    (EventKind = "direct" /\ inv.state = "returned") =>
        LET rendered == Response_body(response[1]).body
        IN  /\ inv.result.isBase64Encoded = IsBinary(rendered)
            /\ IsBinary(rendered) =>
                  /\ "b64" \in DOMAIN inv.result.body
                  /\ b64bytes(inv.result.body.b64) = rendered.bytes
            /\ (rendered = None \/ IsText(rendered)) =>
                  inv.result.body = rendered
            /\ rendered = None \/ IsText(rendered) \/ IsBinary(rendered)
            /\ inv.result.statusCode = ToString(response[1].status_code)
            /\ called[1] = "get" =>
                  inv.result.body = None /\ inv.result.statusCode = "204"
            /\ called[1] = "created" =>
                  /\ inv.result.body = PyStr("created")
                  /\ inv.result.statusCode = "201"

\* A direct invocation returned the one byte of a bytearray as base64 text
\* with the flag set.
C19_Witness ==
    /\ EventKind = "direct"
    /\ inv.state = "returned"
    /\ called[1] = "post_bytearray"
    /\ Response_body(response[1]).body = bytearray(bytes(<<0>>))
    /\ inv.result.isBase64Encoded
    /\ inv.result.body = [b64 |-> <<0, 0, 64, 64>>]
    /\ inv.result.statusCode = "200"

\* C20: once __del__ has run, every context entered through the Handler (the
\* backend with its logger first, then those given to enter_async_context)
\* has been exited exactly once, in the reverse of the order in which they
\* were entered, also when __init__ raised, when an invocation raised and
\* when __del__ runs again; nothing is exited before __del__ runs.
C20_ReleasedOnceInReverseOrder ==
    /\ life.state = "deleted" =>
          /\ Len(life.released) = Len(life.acquired)
          /\ \A k \in DOMAIN life.released :
                life.released[k] = life.acquired[Len(life.acquired) + 1 - k]
          /\ life.exit_stack = <<>>
    /\ life.state # "deleted" =>
          life.released = <<>> /\ life.exit_stack = life.acquired
    /\ \A k, l \in DOMAIN life.released :
          life.released[k] = life.released[l] => k = l
    /\ life.state = "failed" => life.acquired = <<>>

\* __del__ ran twice on a Handler that had entered two contexts after its
\* backend and whose invocation raised.
C20_Witness ==
    /\ life.state = "deleted"
    /\ life.dels = 2
    /\ inv.state = "raised"
    /\ life.acquired = <<"backend", "pool", "client">>
    /\ life.released = <<"client", "pool", "backend">>

\* C21: an event without requestContext that has no records, no event
\* source, or the event source of another service than SQS, SNS and MQ is
\* parsed into no request, and its invocation does not raise and returns None.
C21_UnrecognizedBatchIsEmpty ==
    (event # None /\ EventKind \in {"empty", "unknown"}) =>
        /\ Requests = <<>>
        /\ inv.state # "raised"
        /\ Ended => inv.result = None

\* C22: the route function is called with the entries of the JSON object of
\* the body, and with the Request of the attempt and its in-flight Response
\* under the names of the parameters annotated with their classes, whatever
\* the body holds under those names; a body that is no JSON object gives no
\* keyword argument.
C22_InjectedArgumentsAreLive ==
    \A i \in Attempts :
        called[i] # "none" =>
            LET body == Request_json(Requests[i])
                seeds == IF IsDict(body) THEN DOMAIN body ELSE {}
                params == check_signature(called[i])
            IN  /\ DOMAIN args[i] = seeds \cup DOMAIN params
                /\ \A name \in seeds \ DOMAIN params :
                      args[i][name] = body[name]
                /\ \A name \in DOMAIN params :
                      /\ params[name] = "Request" => args[i][name] = Requests[i]
                      /\ (params[name] = "Response" /\ pc[i] = "waiting") =>
                            args[i][name] = response[i]

\* A route function waits with the Request of its attempt as its argument
\* request, the body of which is a JSON object with the key request.
C22_Witness ==
    /\ EventKind = "direct"
    /\ pc[1] = "waiting"
    /\ called[1] = "get_request"
    /\ Request_json(Requests[1]) = [request |-> PyStr("body")]
    /\ args[1]["request"] = Requests[1]

LookupFails(request) ==
    \/ request.path \notin DOMAIN routes
    \/ request.method \notin DOMAIN routes[request.path]

\* C24: an attempt whose route lookup fails never waits for a route
\* function: it calls none, binds no argument, awaits neither body() nor
\* json() on its Request, and ends in the step that started it, returning
\* the Response of the 404 or 405, the only status its log scope is given.
C24_LookupFailureEndsTheAttempt ==
    /\ [](\A i \in Attempts :
            LookupFails(Requests[i]) =>
                /\ pc[i] \in {"pending", "done"}
                /\ called[i] = "none"
                /\ args[i] = EmptyDict
                /\ cached[i] = NoCache
                /\ pc[i] = "pending" => log[i] = NoEvent
                /\ pc[i] = "done" =>
                      /\ response[i].status_code \in {404, 405}
                      /\ response[i].status_code
                            = IF Requests[i].path \in DOMAIN routes
                              THEN 405 ELSE 404
                      /\ log[i].status_code = response[i].status_code
                      /\ escaped[i] = None)
    /\ [][\A i \in Attempts :
            (LookupFails(Requests[i]) /\ pc[i] = "pending" /\ pc'[i] # "pending")
                => pc'[i] = "done"]_vars

\* In a batch, the attempt of a request without route has ended with 404
\* while its sibling waits for its route function.
C24_Witness ==
    /\ Len(Requests) = 2
    /\ LookupFails(Requests[1])
    /\ pc[1] = "done"
    /\ response[1].status_code = 404
    /\ cached[1] = NoCache
    /\ pc[2] = "waiting"
    /\ cached[2] # NoCache

\* C25: once json() was awaited on the Request of an attempt, its value is
\* None when the body is absent or no valid JSON and the decoded body
\* otherwise, and the value it keeps for later calls never changes.
C25_JsonOfTheBody ==
    /\ [](\A i \in Attempts :
            cached[i].json # Unset =>
                LET body == Request_body(Requests[i])
                IN  cached[i].json = IF body = None \/ ~IsJSON(body) THEN None
                                     ELSE loads(body))
    /\ [][\A i \in Attempts :
            (i \in DOMAIN cached /\ cached[i].json # Unset)
                => cached'[i].json = cached[i].json]_vars

-----------------------------------------------------------------------------
\* The status the pair of the request was registered with, 200 when it was
\* registered without one
RegisteredStatus(request) ==
    LET given == CHOOSE r \in registry :
                     r[1] = request.path /\ r[2] = request.method
    IN  IF given[4] = None THEN 200 ELSE given[4].int

\* The direct invocation returned, and its route function returned content
\* that is not None and is not a Response.
ReturnedContent ==
    /\ inv.state = "returned"
    /\ parsed.isRequest
    /\ called[1] # "none"
    /\ LET ended == RouteFunction(called[1], args[1], log[1])
       IN  /\ ended.kind = "return"
           /\ ended.value # None
           /\ ~IsResponse(ended.value)

\* C26 as stated: a route registered with the status S whose function returns
\* content and leaves the status alone answers with the status S, whatever S
\* is, and with 200 when it is registered without a status.
C26_RegisteredStatusIsKept ==
    ReturnedContent =>
        inv.result.statusCode = ToString(RegisteredStatus(Requests[1]))

\* C26, amended: a route registered with the status S whose function returns
\* content and leaves the status alone answers with S when S is not 204 and
\* with 200 when S is 204, the content turning 204 into 200; a route
\* registered without a status answers with 200.
C26_RegisteredStatusIsKeptUnless204 ==
    ReturnedContent =>
        inv.result.statusCode
            = IF RegisteredStatus(Requests[1]) = 204 THEN "200"
              ELSE ToString(RegisteredStatus(Requests[1]))

\* A route registered with 202 returned content and the envelope says 202.
C26_Witness ==
    /\ ReturnedContent
    /\ RegisteredStatus(Requests[1]) = 202
    /\ inv.result.statusCode = "202"

-----------------------------------------------------------------------------
\* The log scopes of the invocation that are closed
ClosedScopes == {i \in Attempts : log[i].state = "closed"}

\* C27: each request has one log scope, opened when its attempt starts and
\* closed when the attempt ends, however it ends (return, 404 or 405,
\* HTTPException, ValidationError, a fault answered or raised again, timeout):
\* an attempt not started has no scope, one in flight has its scope open, one
\* that ended has it closed; a closed scope stays closed and an open one is
\* never opened anew; and when the N attempts have ended there are N closed
\* scopes, one for each request.
C27_OneLogScopePerRequest ==
    /\ [](/\ \A i \in Attempts :
                /\ pc[i] = "pending" <=> log[i].state = "none"
                /\ pc[i] = "waiting" <=> log[i].state = "open"
                /\ Terminal(i) <=> log[i].state = "closed"
                /\ log[i].state # "none" =>
                      /\ log[i].method = Requests[i].method
                      /\ log[i].path = Requests[i].path
          /\ (\A i \in Attempts : Terminal(i)) =>
                Cardinality(ClosedScopes) = Len(Requests))
    /\ [][\A i \in Attempts :
            /\ log[i].state = "open" => log'[i].state \in {"open", "closed"}
            /\ log[i].state = "closed" => log'[i] = log[i]]_vars

\* A batch of two returned: one attempt ended by the timeout, the other by a
\* 404, and both log scopes are closed.
C27_Witness ==
    /\ inv.state = "returned"
    /\ Len(Requests) = 2
    /\ ClosedScopes = {1, 2}
    /\ \E i, j \in Attempts :
          /\ called[i] # "none"
          /\ RouteFunction(called[i], args[i], log[i]).kind = "hang"
          /\ called[j] = "none"

-----------------------------------------------------------------------------
\* The name of the correlation id among the headers the caller sent, if any
SentIdNames(headers) == {h \in DOMAIN headers : Lower(h) = "x-request-id"}

\* C28: header names are case-insensitive: each header the caller sent, under
\* any capitalisation, is a header of the Request under its lower-case name
\* with the value sent; the correlation id of a direct request (the id of its
\* log scope) is the x-request-id the caller sent, however its name is
\* capitalised, and the requestId of the gateway only when the caller sent
\* none.
C28_HeaderNamesAreCaseInsensitive ==
    \A sent \in CallerHeaders :
        (/\ parsed # None
         /\ parsed.isRequest
         /\ event = Request_init(HeaderEvent(sent), TRUE).event) =>
            /\ \A name \in DOMAIN sent :
                  /\ Lower(name) \in DOMAIN Requests[1].headers
                  /\ Requests[1].headers[Lower(name)] = sent[name]
            /\ Get(Requests[1].headers, "x-request-id", None)
                  = IF SentIdNames(sent) = {}
                    THEN event.requestContext.requestId
                    ELSE sent[CHOOSE name \in SentIdNames(sent) : TRUE]
            /\ log[1].state # "none" =>
                  log[1].id = Get(Requests[1].headers, "x-request-id", None)

-----------------------------------------------------------------------------
\* The x-request-id header of a Request or of a Response
RequestId(message) == Get(message.headers, "x-request-id", None)

\* C29: the x-request-id header of the Response of request ri is the id of
\* the log scope opened for ri, which is ri's own x-request-id (the header of
\* its payload when it has one, else the requestId of its record), whatever
\* the order in which the attempts of the batch run and end; the Response
\* paired with ri in the batch result carries ri's id, and so never the id of
\* a sibling, the ids of the requests of a batch being distinct.
C29_ResponseCarriesItsRequestId ==
    /\ \A i \in Attempts :
          /\ log[i].state # "none" => log[i].id = RequestId(Requests[i])
          /\ response[i] # None =>
                /\ RequestId(response[i]) = log[i].id
                /\ \A j \in Attempts \ {i} :
                      RequestId(Requests[j]) # RequestId(Requests[i]) =>
                          RequestId(response[i]) # RequestId(Requests[j])
    /\ (inv.state = "returned" /\ ~parsed.isRequest) =>
          \A i \in Attempts :
              /\ inv.pairs[i][2] = Requests[i]
              /\ RequestId(inv.pairs[i][1]) = RequestId(Requests[i])

\* A batch of two requests with x-request-id headers of their own returned:
\* the second attempt ended first, and each Response carries the header of
\* its request.
C29_Witness ==
    /\ inv.state = "returned"
    /\ ~parsed.isRequest
    /\ completed = <<2, 1>>
    /\ RequestId(Requests[1]) = PyStr("c1")
    /\ RequestId(Requests[2]) = PyStr("c2")
    /\ RequestId(inv.pairs[1][1]) = PyStr("c1")
    /\ RequestId(inv.pairs[2][1]) = PyStr("c2")

-----------------------------------------------------------------------------
\* C30: when a batch invocation returns or raises, none of its attempts is in
\* flight: each of the N attempts has ended, with a Response or with the
\* exception it raised, and has closed its log scope, also when one of them
\* raises an unhandled fault again.
C30_NoAttemptOutlivesTheBatch ==
    (Ended /\ parsed # None /\ ~parsed.isRequest) =>
        \A i \in Attempts :
            /\ Terminal(i)
            /\ pc[i] = "done" => response[i] # None
            /\ pc[i] = "raised" => escaped[i] # None
            /\ log[i].state = "closed"

-----------------------------------------------------------------------------
\* The result names exactly the records that failed.
NamesTheFailed(result) ==
    /\ DOMAIN result = {"batchItemFailures"}
    /\ \A k \in 1..Len(result.batchItemFailures) :
          result.batchItemFailures[k].itemIdentifier \in FailedIds

\* C31: an SQS batch invocation never fails as a whole because of one
\* record: whatever its records hold, a text that is not a request included,
\* and whatever their route functions do, the invocation raises nothing,
\* every record is dispatched, and the result is None or a report naming
\* failed records.
C31_SqsBatchNeverFailsAsAWhole ==
    (Ended /\ EventKind = "sqs") =>
        /\ inv.state = "returned"
        /\ Len(Requests) = Len(Records)
        /\ \A i \in Attempts : Terminal(i)
        /\ inv.result = None \/ NamesTheFailed(inv.result)

-----------------------------------------------------------------------------
\* C32: whatever the Responses made and the statuses and contents assigned to
\* them, in any order, a Response with status 200 has content that is not
\* None and a Response with status 204 has None as content.
C32_StatusAndContentAgree ==
    \A i \in DOMAIN response :
        response[i] # None =>
            /\ response[i].status_code = 200 => response[i].content # None
            /\ response[i].status_code = 204 => response[i].content = None

-----------------------------------------------------------------------------
\* C33: parse_request leaves the batch event as it was handed: once the
\* requests of a batch are made, each record of the raw event still has its
\* envelope field (body, Message, data), and parsing the same event again
\* raises nothing, makes the same requests and leaves the event the same.
C33_ParsingKeepsTheEvent ==
    (/\ EventKind \in {"sqs", "sns", "mq"}
     /\ inv.state # "idle"
     /\ Len(Requests) > 0) =>
        /\ \A i \in 1..Len(Records) : HasText(Records[i], EventKind)
        /\ LET again == parse_request(event)
           IN  /\ again.raised = None
               /\ again.value = Requests
               /\ again.event = event

-----------------------------------------------------------------------------
\* C34: the headers given to an HTTPException reach the caller: when a route
\* function raised HTTPException(status, detail, headers=H), every entry of H
\* is a header of the Response of the attempt and of the envelope returned.
C34_ErrorHeadersAreDelivered ==
    \A i \in Attempts :
        (RaisedHTTP(i) /\ HTTPErrorOf(i).headers # None) =>
            LET H == HTTPErrorOf(i).headers
            IN  /\ \A k \in DOMAIN H :
                      /\ k \in DOMAIN response[i].headers
                      /\ response[i].headers[k] = H[k]
                /\ (inv.state = "returned" /\ parsed.isRequest) =>
                      \A k \in DOMAIN H :
                          /\ k \in DOMAIN inv.result.headers
                          /\ inv.result.headers[k] = H[k]

====
